---------------------------- MODULE Spec2Model ----------------------------
(***************************************************************************)
(* Server-side tree renderer of drupal-canvas-react                        *)
(* (src/src/server.ts, src/src/utils.ts).                                  *)
(*                                                                         *)
(* renderCanvasComponents takes a flat list of placement records and a     *)
(* component map, and builds a nested tree of React elements.  Every       *)
(* renderComponent(record) is an async function: it runs synchronously up  *)
(* to its first await (the entry's loader), resumes when the loader        *)
(* settles, and then awaits its children one slot bucket at a time.        *)
(*                                                                         *)
(* Strings that the code takes apart (component_id, component keys,        *)
(* idPrefix) are sequences of one-character strings.  Strings the code     *)
(* only compares or passes on (uuid, slot, inputs) are TLA+ strings.       *)
(***************************************************************************)
EXTENDS Integers, Sequences, FiniteSets, TLC

VARIABLES
    canvasComponents,  \* the input list of DrupalCanvasComponent records
    idPrefix,          \* config.idPrefix (the empty string when undefined)
    onErrorMode,       \* options.onError: absent, or what the callback does
    callState,         \* the promise of renderCanvasComponents
    callResult,        \* the list it resolves to
    callError,         \* the reason it rejects with
    task,              \* one renderComponent activation per record
    renders,           \* record -> number of renderComponent activations
    loaderCalls,       \* record -> number of entry.loader() invocations
    parseCalls,        \* record -> number of JSON.parse(inputs) calls
    tpCalls,           \* record -> arguments transformProps was called with
    tpEarly,           \* record -> transformProps ran before any child started
    onErrorCalls,      \* the calls of onError, in order: <<error, record>>
    overtook,          \* records whose loader settled before an earlier sibling's
    logged,            \* the errors written to the log
    renderCalls,       \* the activations of the browser render function
    container,         \* the elements rendered into the container, in order
    parked,            \* a second call of renderCanvasComponents in progress
    cwdFiles,          \* the config files of the working directory
    configCall         \* the promise of loadConfig(cwd)

\* the state of the browser side (preview)
browser == <<renderCalls, container>>

\* the state of the command line side (config.ts)
cli == <<cwdFiles, configCall>>

vars == <<canvasComponents, idPrefix, onErrorMode, callState, callResult,
          callError, task, renders, loaderCalls, parseCalls, tpCalls, tpEarly,
          onErrorCalls, overtook, logged, renderCalls, container, parked,
          cwdFiles, configCall>>

----------------------------------------------------------------------------
(* Bounds of the model *)

\* number of records in the input list
NumRecords == 3

\* number of calls of the browser render function
MaxCalls == 2

Idx == 1..NumRecords

----------------------------------------------------------------------------
(* Values *)

\* JavaScript null / undefined, where the code only tests for it
null == "null"

\* a property bag: a function from property names to values
EmptyBag == [n \in {} |-> 0]

\* {...a, ...b}: object spread, later entries win
Spread(a, b) ==
    [n \in DOMAIN a \cup DOMAIN b |-> IF n \in DOMAIN b THEN b[n] ELSE a[n]]

Scalar(s) == [scalar |-> s]
List(l) == [list |-> l]

\* an Error object, or a thrown value that is not one
ErrorOf(m) == [isError |-> TRUE, message |-> m]
NonError(m) == [isError |-> FALSE, message |-> m]

Thrown(e) == [thrown |-> TRUE, error |-> e]
Returned(v) == [thrown |-> FALSE, value |-> v]

\* the rendered result of a record: null or a React element
NoType == [t |-> "undefined", name |-> "", tagged |-> FALSE]
NullNode == [kind |-> "null", type |-> NoType, key |-> "", props |-> EmptyBag]
Element(type, key, props) ==
    [kind |-> "element", type |-> type, key |-> key, props |-> props]

\* String(v) as React applies it to a key ('' + config.key)
ToStr(v) ==
    IF "scalar" \in DOMAIN v THEN v.scalar ELSE "[object Object]"

----------------------------------------------------------------------------
(* Strings as sequences of characters *)

Lower == <<"a","b","c","d","e","f","g","h","i","j","k","l","m",
           "n","o","p","q","r","s","t","u","v","w","x","y","z">>
Upper == <<"A","B","C","D","E","F","G","H","I","J","K","L","M",
           "N","O","P","Q","R","S","T","U","V","W","X","Y","Z">>

\* String.prototype.toUpperCase on one character
ToUpperCase(c) ==
    IF \E i \in 1..Len(Lower) : Lower[i] = c
    THEN Upper[CHOOSE i \in 1..Len(Lower) : Lower[i] = c]
    ELSE c

\* String.prototype.split(d): the segments between the occurrences of d
RECURSIVE Split(_, _)
Split(s, d) ==
    IF \A i \in 1..Len(s) : s[i] # d
    THEN <<s>>
    ELSE LET p == CHOOSE i \in 1..Len(s) :
                      s[i] = d /\ \A j \in 1..(i-1) : s[j] # d
         IN  <<SubSeq(s, 1, p-1)>> \o Split(SubSeq(s, p+1, Len(s)), d)

\* the word as it is, without the capital
Capitalize_asIs(word) == word

\* word.charAt(0).toUpperCase() + word.slice(1)
Capitalize(word) ==
    IF word = <<>> THEN <<>>
    ELSE <<ToUpperCase(word[1])>> \o SubSeq(word, 2, Len(word))

\* Array.prototype.join('') of the mapped words
RECURSIVE JoinCapitalized(_)
JoinCapitalized(words) ==
    IF words = <<>> THEN <<>>
    ELSE Capitalize(Head(words)) \o JoinCapitalized(Tail(words))

\* a prefix counts wherever the string is at least as long
StartsWith_anyText(s, p) == Len(p) <= Len(s)

\* String.prototype.startsWith
StartsWith(s, p) == Len(p) <= Len(s) /\ SubSeq(s, 1, Len(p)) = p

\* componentIdToKey(componentId, idPrefix): the component key, or the
\* TypeError of calling .split on undefined when componentId has no '.'
ComponentIdToKey(componentId, prefix) ==
    LET parts == Split(componentId, ".") IN
    IF Len(parts) < 2
    THEN Thrown(ErrorOf("TypeError: cannot read properties of undefined"))
    ELSE LET pascalCase == JoinCapitalized(Split(parts[2], "_")) IN
         IF prefix # <<>> /\ StartsWith(pascalCase, prefix)
         THEN Returned(SubSeq(pascalCase, Len(prefix) + 1, Len(pascalCase)))
         ELSE Returned(pascalCase)

----------------------------------------------------------------------------
(* Modules and the resolver (src/src/utils.ts) *)

\* export values
Fn(name) == [t |-> "function", name |-> name, tagged |-> FALSE]
Wrapped(name) == [t |-> "object", name |-> name, tagged |-> TRUE]
PlainObject == [t |-> "object", name |-> "", tagged |-> FALSE]
Str(s) == [t |-> "string", name |-> s, tagged |-> FALSE]
Undefined == [t |-> "undefined", name |-> "", tagged |-> FALSE]
Null == [t |-> "null", name |-> "", tagged |-> FALSE]
Zero == [t |-> "number", name |-> "0", tagged |-> FALSE]

IsValidComponent(value) ==
    \/ value.t = "function"
    \/ value.t = "object" /\ value.tagged

\* JavaScript truthiness of an export value
Truthy(value) ==
    /\ value.t # "undefined"
    /\ value.t # "null"
    /\ ~(value.t = "string" /\ value.name = "")
    /\ value # Zero

\* a module is the list of its exports <<name, value>> in enumeration order
Export(module, name) ==
    IF \E i \in 1..Len(module) : module[i][1] = name
    THEN module[CHOOSE i \in 1..Len(module) : module[i][1] = name][2]
    ELSE Undefined

\* Object.values(moduleRecord).find((exp) => isValidComponent(exp))
FindValid(module) ==
    IF \E i \in 1..Len(module) : IsValidComponent(module[i][2])
    THEN module[CHOOSE i \in 1..Len(module) :
                    /\ IsValidComponent(module[i][2])
                    /\ \A j \in 1..(i-1) : ~IsValidComponent(module[j][2])][2]
    ELSE Undefined

\* the first valid export of the module, whatever its name
ResolveComponent_firstValid(module, componentKey) ==
    LET Component == FindValid(module) IN
    IF ~Truthy(Component) \/ ~IsValidComponent(Component)
    THEN Thrown(ErrorOf("has no valid export"))
    ELSE Returned(Component)

\* the part of resolveComponent after the loader has resolved with module
ResolveComponent(module, componentKey) ==
    LET byDefault == Export(module, <<"d","e","f","a","u","l","t">>)
        byKey == Export(module, componentKey)
        Component == IF Truthy(byDefault) THEN byDefault
                     ELSE IF Truthy(byKey) THEN byKey
                     ELSE FindValid(module)
    IN  IF ~Truthy(Component) \/ ~IsValidComponent(Component)
        THEN Thrown(ErrorOf("has no valid export"))
        ELSE Returned(Component)

----------------------------------------------------------------------------
(* The component map handed to renderCanvasComponents *)

DefaultName == <<"d","e","f","a","u","l","t">>

\* a loader that resolves with a module, or rejects with a reason
Resolves(module) ==
    [settles |-> "resolve", module |-> module, reason |-> NonError("")]
Rejects(reason) ==
    [settles |-> "reject", module |-> <<>>, reason |-> reason]

Entry(loader, transformProps) ==
    [loader |-> loader, transformProps |-> transformProps]

K_Ok == <<"O","k">>
K_Tp == <<"T","p">>
K_Tt == <<"T","t">>
K_Bad == <<"B","a","d">>
K_Rej == <<"R","e","j">>
K_TextBlock == <<"T","e","x","t","B","l","o","c","k">>
K_CardGrid == <<"C","a","r","d","G","r","i","d">>

\* Modules of every shape.  A key M followed by four letters names the
\* module whose exports are, in enumeration order, Alpha, one named like
\* the key, default and Zeta, each with the value its letter stands for:
\*   u absent, f a function, w a forwardRef / memo object, p a plain
\*   object, n null, e the empty string, z the number 0, s a string
ValueOf(letter, name) ==
    CASE letter = "f" -> Fn(name)
      [] letter = "w" -> Wrapped(name)
      [] letter = "p" -> PlainObject
      [] letter = "n" -> Null
      [] letter = "e" -> Str("")
      [] letter = "z" -> Zero
      [] letter = "s" -> Str(name)
      [] OTHER -> Undefined

AnyValue == {"u", "f", "w", "p", "n", "e", "z", "s"}

ModuleKeys ==
    { <<"M", d, k, a, z>> :
        d \in AnyValue, k \in AnyValue, a \in {"u", "f", "w", "p"}, z \in {"u", "f"} }

AlphaName == <<"A","l","p","h","a">>
ZetaName == <<"Z","e","t","a">>

ModuleOf(key) ==
    LET all == << <<AlphaName, ValueOf(key[4], "Alpha"), key[4]>>,
                  <<key, ValueOf(key[3], "named"), key[3]>>,
                  <<DefaultName, ValueOf(key[2], "default"), key[2]>>,
                  <<ZetaName, ValueOf(key[5], "Zeta"), key[5]>> >>
        present == SelectSeq(all, LAMBDA e : e[3] # "u")
    IN  [n \in 1..Len(present) |-> <<present[n][1], present[n][2]>>]

\* the component id Drupal sends for a module key
ModuleId(key) == <<"x", ".", "m">> \o Tail(key)

\* the keys of the component maps of the tests
NamedKeys == {K_Ok, K_Tp, K_Tt, K_Bad, K_Rej, K_TextBlock, K_CardGrid}

componentMap ==
    [k \in NamedKeys \cup ModuleKeys |->
        CASE k = K_Ok ->
               Entry(Resolves(<< <<DefaultName, Fn("TestComponent")>> >>), "none")
          [] k = K_Tp ->
               Entry(Resolves(<< <<DefaultName, Fn("TestComponent")>> >>), "spread")
          [] k = K_Tt ->
               Entry(Resolves(<< <<DefaultName, Fn("TestComponent")>> >>), "throws")
          [] k = K_Bad ->
               Entry(Resolves(<< <<DefaultName, PlainObject>> >>), "none")
          [] k = K_Rej ->
               Entry(Rejects(NonError("network down")), "none")
          [] k = K_TextBlock ->
               Entry(Resolves(<< <<DefaultName, Fn("TextBlock")>> >>), "none")
          [] k = K_CardGrid ->
               Entry(Resolves(<< <<DefaultName, Fn("CardGrid")>> >>), "none")
          [] OTHER ->
               Entry(Resolves(ModuleOf(k)), "none")]

\* entry.transformProps(inputs), for an entry that has one
\*   "spread": (props) => ({ ...props, title: <derived> })
\*   "throws": a transform that throws
TransformProps(kind, inputs) ==
    IF kind = "throws"
    THEN Thrown(ErrorOf("transformProps failed"))
    ELSE Returned(Spread(inputs, [title |-> Scalar("derived")]))

----------------------------------------------------------------------------
(* The records and their inputs *)

Uuid(i) == ToString(i)

C_ok == <<"x",".","o","k">>
C_tp == <<"x",".","t","p">>
C_tt == <<"x",".","t","t">>
C_bad == <<"x",".","b","a","d">>
C_rej == <<"x",".","r","e","j">>
C_missing == <<"x",".","n","o">>

\* component ids as Drupal sends them, and ids it would not send
I_text_block ==
    <<"n","s",".","t","e","x","t","_","b","l","o","c","k">>
I_acme_text_block ==
    <<"n","s",".","a","c","m","e","_","t","e","x","t","_","b","l","o","c","k">>
I_acme_twice ==
    <<"n","s",".","a","c","m","e","_","a","c","m","e","_","c","a","r","d","_","g","r","i","d">>
I_card_grid ==
    <<"n","s",".","c","a","r","d","_","g","r","i","d">>
I_extra_segment ==
    <<"n","s",".","t","e","x","t","_","b","l","o","c","k",".","v","2">>
I_empty_words ==
    <<"n","s",".","_","t","e","x","t","_","_","b","l","o","c","k","_">>
I_inner_capital ==
    <<"n","s",".","c","a","r","d","_","g","R","i","d">>
I_no_dot ==
    <<"t","e","x","t","_","b","l","o","c","k">>

Acme == <<"A","c","m","e">>

J_title == "{\"title\":\"First\"}"
J_key == "{\"key\":\"k\",\"title\":\"First\"}"
J_bad == "{not json"
J_two == "{\"title\":\"First\",\"body\":\"Text\"}"

\* JSON.parse(text), for the input texts of the model
JsonParse(text) ==
    CASE text = J_title -> Returned([title |-> Scalar("First")])
      [] text = J_key -> Returned([key |-> Scalar("k"), title |-> Scalar("First")])
      [] text = J_two -> Returned([title |-> Scalar("First"), body |-> Scalar("Text")])
      [] OTHER -> Thrown(ErrorOf("SyntaxError: unexpected token"))

Record(i, parent, slot, content) ==
    [uuid |-> Uuid(i), parent_uuid |-> parent, slot |-> slot,
     component_id |-> content[1], inputs |-> content[2]]

----------------------------------------------------------------------------
(* getChildrenBySlot (server.ts:82-95) *)

\* the positions of the input list, which may hold fewer records than the
\* model has places for
Positions == [i \in 1..Len(canvasComponents) |-> i]

\* child.slot ?? 'children': an empty slot name is kept as a name
SlotOf_nullish(c) == IF c.slot = null THEN "children" ELSE c.slot

\* child.slot || 'children'
SlotOf(c) == IF c.slot = null \/ c.slot = "" THEN "children" ELSE c.slot

\* canvasComponents.filter((c) => c.parent_uuid === parentUuid), as positions
ChildrenOf(parentUuid) ==
    SelectSeq(Positions, LAMBDA i : canvasComponents[i].parent_uuid = parentUuid)

\* the keys of bySlot in insertion order: each slot at its first child
SlotNames(parentUuid) ==
    LET children == ChildrenOf(parentUuid) IN
    LET firstOfSlot(n) ==
            \A m \in 1..(n-1) :
                SlotOf(canvasComponents[children[m]]) #
                SlotOf(canvasComponents[children[n]])
        firsts == SelectSeq([n \in 1..Len(children) |-> n], firstOfSlot)
    IN  [n \in 1..Len(firsts) |-> SlotOf(canvasComponents[children[firsts[n]]])]

\* bySlot.get(slot): the children pushed under that slot, in list order
SlotChildren(parentUuid, slot) ==
    SelectSeq(ChildrenOf(parentUuid),
              LAMBDA i : SlotOf(canvasComponents[i]) = slot)

\* every record without a parent, whatever its slot
RootComponents_anySlot ==
    SelectSeq([i \in Idx |-> i], LAMBDA i : canvasComponents[i].parent_uuid = null)

\* a record whose parent is not in the list is taken for a root
RootComponents_adoptOrphans ==
    SelectSeq(Positions,
              LAMBDA i :
                  /\ SlotOf(canvasComponents[i]) = "children"
                  /\ \A j \in Idx :
                         canvasComponents[j].uuid # canvasComponents[i].parent_uuid)

\* a record that names itself as its parent is taken for a root
RootComponents_selfParented ==
    SelectSeq(Positions,
              LAMBDA i :
                  /\ SlotOf(canvasComponents[i]) = "children"
                  /\ canvasComponents[i].parent_uuid \in
                         {null, canvasComponents[i].uuid})

\* getChildrenBySlot(null).get('children') || []
RootComponents == SlotChildren(null, "children")

Range(s) == {s[n] : n \in 1..Len(s)}

----------------------------------------------------------------------------
(* renderComponent (server.ts:97-130) *)

IdleTask ==
    [pc |-> "idle", key |-> <<>>, type |-> NoType, props |-> EmptyBag,
     slots |-> EmptyBag, slotIdx |-> 0, result |-> NullNode,
     error |-> NonError(""), caught |-> FALSE]

\* the thrown value handed on as it is
AsError_raw(err) == err

\* err instanceof Error ? err : new Error(String(err))
AsError(err) == IF err.isError THEN err ELSE ErrorOf(err.message)

\* what the configured onError callback returns for (error, component)
Substitute(error, component) ==
    Element([t |-> "host", name |-> "div", tagged |-> FALSE], "",
            [message |-> Scalar(error.message), failed |-> Scalar(component.uuid)])

HandlerError == ErrorOf("onError failed")

\* the call of onError made by the catch block, if a callback is configured
OnErrorCall(i, err) ==
    IF onErrorMode = "absent" THEN <<>>
    ELSE << [error |-> AsError(err), component |-> canvasComponents[i]] >>

\* renderComponent without its try / catch: the error rejects the promise
Catch_rethrow(t, i, err) ==
    [t EXCEPT !.caught = TRUE, !.pc = "rejected", !.error = err]

\* the catch block (server.ts:123-129): the task of record i after err was
\* thrown inside its try block
Catch(t, i, err) ==
    LET c == [t EXCEPT !.caught = TRUE] IN
    CASE onErrorMode = "absent" ->
           [c EXCEPT !.pc = "fulfilled", !.result = NullNode]
      [] onErrorMode = "node" ->
           [c EXCEPT !.pc = "fulfilled",
                     !.result = Substitute(AsError(err), canvasComponents[i])]
      [] onErrorMode = "undefined" ->
           \* onError(error, component) ?? null
           [c EXCEPT !.pc = "fulfilled", !.result = NullNode]
      [] onErrorMode = "throws" ->
           [c EXCEPT !.pc = "rejected", !.error = HandlerError]

\* the props spread after the slots: { key, ...slots, ...props }
Config_propsLast(uuid, props, slots) ==
    Spread(Spread([key |-> Scalar(uuid)], slots), props)

\* { key: component.uuid, ...props, ...slots }
Config(uuid, props, slots) ==
    Spread(Spread([key |-> Scalar(uuid)], props), slots)

\* React.createElement(Component, config): key is taken out of config and
\* becomes the element's key, the other entries become its props
CreateElement(Component, config) ==
    Element(Component,
            IF "key" \in DOMAIN config THEN ToStr(config["key"]) ELSE "",
            [n \in DOMAIN config \ {"key"} |-> config[n]])

\* The outcome of a step of renderComponent(record i):
\*   task  - the activation afterwards
\*   calls - the onError calls it made
\*   parse - 1 when JSON.parse ran
\*   tp    - the arguments transformProps was called with
\*   kids  - the children whose renderComponent it started
Outcome(t, calls, parse, tp, kids) ==
    [task |-> t, calls |-> calls, parse |-> parse, tp |-> tp, kids |-> kids]

Failed(t, i, err, parse, tp) ==
    Outcome(Catch(t, i, err), OnErrorCall(i, err), parse, tp, <<>>)

\* componentIdToKey is called before the try block is entered: what it
\* throws rejects the promise of renderComponent
StartTask_keyOutsideTry(i) ==
    LET c == canvasComponents[i]
        k == ComponentIdToKey(c.component_id, idPrefix)
    IN  IF k.thrown
        THEN Outcome([IdleTask EXCEPT !.pc = "rejected", !.error = k.error],
                     <<>>, 0, <<>>, <<>>)
        ELSE IF k.value \notin DOMAIN componentMap
        THEN Failed(IdleTask, i, ErrorOf("not found in component map"), 0, <<>>)
        ELSE Outcome([IdleTask EXCEPT !.pc = "loading", !.key = k.value],
                     <<>>, 0, <<>>, <<>>)

\* lines 101-108 up to the await: the synchronous start of renderComponent
StartTask(i) ==
    LET c == canvasComponents[i]
        k == ComponentIdToKey(c.component_id, idPrefix)
    IN  IF k.thrown THEN Failed(IdleTask, i, k.error, 0, <<>>)
        ELSE IF k.value \notin DOMAIN componentMap
        THEN Failed(IdleTask, i, ErrorOf("not found in component map"), 0, <<>>)
        ELSE Outcome([IdleTask EXCEPT !.pc = "loading", !.key = k.value],
                     <<>>, 0, <<>>, <<>>)

\* only the first slot bucket is rendered: the element is created when it
\* has been awaited
EnterSlot_firstBucketOnly(t, i, n, parse, tp) ==
    LET uuid == canvasComponents[i].uuid
        names == SlotNames(uuid)
    IN  IF n > Len(names) \/ n > 1
        THEN Outcome([t EXCEPT !.pc = "fulfilled",
                               !.result = CreateElement(t.type,
                                              Config(uuid, t.props, t.slots))],
                     <<>>, parse, tp, <<>>)
        ELSE Outcome([t EXCEPT !.pc = "awaitSlot", !.slotIdx = n],
                     <<>>, parse, tp, SlotChildren(uuid, names[n]))

\* lines 116-122: take up the slot bucket at position n of the Map, or
\* create the element when every bucket has been awaited
EnterSlot(t, i, n, parse, tp) ==
    LET uuid == canvasComponents[i].uuid
        names == SlotNames(uuid)
    IN  IF n > Len(names)
        THEN Outcome([t EXCEPT !.pc = "fulfilled",
                               !.result = CreateElement(t.type,
                                              Config(uuid, t.props, t.slots))],
                     <<>>, parse, tp, <<>>)
        ELSE Outcome([t EXCEPT !.pc = "awaitSlot", !.slotIdx = n],
                     <<>>, parse, tp, SlotChildren(uuid, names[n]))

\* transformProps is called and its return value dropped
AfterLoader_ignoreTransform(t, i) ==
    LET entry == componentMap[t.key] IN
    IF entry.loader.settles = "reject"
    THEN Failed(t, i, entry.loader.reason, 0, <<>>)
    ELSE
    LET resolved == ResolveComponent(entry.loader.module, t.key) IN
    IF resolved.thrown THEN Failed(t, i, resolved.error, 0, <<>>)
    ELSE
    LET inputs == JsonParse(canvasComponents[i].inputs) IN
    IF inputs.thrown THEN Failed(t, i, inputs.error, 1, <<>>)
    ELSE
    LET hasTp == entry.transformProps # "none"
        props == IF hasTp
                 THEN TransformProps(entry.transformProps, inputs.value)
                 ELSE inputs
        tp == IF hasTp THEN <<inputs.value>> ELSE <<>>
    IN
    IF props.thrown THEN Failed(t, i, props.error, 1, tp)
    ELSE EnterSlot([t EXCEPT !.type = resolved.value, !.props = inputs.value],
                   i, 1, 1, tp)

\* the children are started before the inputs of the record are parsed
AfterLoader_childrenFirst(t, i) ==
    LET entry == componentMap[t.key]
        uuid == canvasComponents[i].uuid
        first == IF SlotNames(uuid) = <<>> THEN <<>>
                 ELSE SlotChildren(uuid, SlotNames(uuid)[1])
    IN
    IF entry.loader.settles = "reject"
    THEN Failed(t, i, entry.loader.reason, 0, <<>>)
    ELSE
    LET resolved == ResolveComponent(entry.loader.module, t.key) IN
    IF resolved.thrown THEN Failed(t, i, resolved.error, 0, <<>>)
    ELSE
    LET inputs == JsonParse(canvasComponents[i].inputs) IN
    IF inputs.thrown
    THEN Outcome(Catch(t, i, inputs.error), OnErrorCall(i, inputs.error),
                 1, <<>>, first)
    ELSE
    LET hasTp == entry.transformProps # "none"
        props == IF hasTp
                 THEN TransformProps(entry.transformProps, inputs.value)
                 ELSE inputs
        tp == IF hasTp THEN <<inputs.value>> ELSE <<>>
    IN
    IF props.thrown THEN Failed(t, i, props.error, 1, tp)
    ELSE EnterSlot([t EXCEPT !.type = resolved.value, !.props = props.value],
                   i, 1, 1, tp)

\* lines 108-115, once the loader of the entry has settled
AfterLoader(t, i) ==
    LET entry == componentMap[t.key] IN
    IF entry.loader.settles = "reject"
    THEN Failed(t, i, entry.loader.reason, 0, <<>>)
    ELSE
    LET resolved == ResolveComponent(entry.loader.module, t.key) IN
    IF resolved.thrown THEN Failed(t, i, resolved.error, 0, <<>>)
    ELSE
    LET inputs == JsonParse(canvasComponents[i].inputs) IN
    IF inputs.thrown THEN Failed(t, i, inputs.error, 1, <<>>)
    ELSE
    LET hasTp == entry.transformProps # "none"
        props == IF hasTp
                 THEN TransformProps(entry.transformProps, inputs.value)
                 ELSE inputs
        tp == IF hasTp THEN <<inputs.value>> ELSE <<>>
    IN
    IF props.thrown THEN Failed(t, i, props.error, 1, tp)
    ELSE EnterSlot([t EXCEPT !.type = resolved.value, !.props = props.value],
                   i, 1, 1, tp)

\* a parent that gives up when one of its children was replaced
AfterSlot_failWithChild(t, i) ==
    LET uuid == canvasComponents[i].uuid
        name == SlotNames(uuid)[t.slotIdx]
        kids == SlotChildren(uuid, name)
    IN  IF \E n \in 1..Len(kids) : task[kids[n]].pc = "rejected" \/ task[kids[n]].caught
        THEN Failed(t, i, HandlerError, 0, <<>>)
        ELSE EnterSlot(
                 [t EXCEPT !.slots =
                     Spread(@, [s \in {name} |->
                         List([n \in 1..Len(kids) |-> task[kids[n]].result])])],
                 i, t.slotIdx + 1, 0, <<>>)

\* lines 117-120, once Promise.all of the awaited bucket has settled
AfterSlot(t, i) ==
    LET uuid == canvasComponents[i].uuid
        name == SlotNames(uuid)[t.slotIdx]
        kids == SlotChildren(uuid, name)
    IN  IF \E n \in 1..Len(kids) : task[kids[n]].pc = "rejected"
        THEN Failed(t, i, HandlerError, 0, <<>>)
        ELSE EnterSlot(
                 [t EXCEPT !.slots =
                     Spread(@, [s \in {name} |->
                         List([n \in 1..Len(kids) |-> task[kids[n]].result])])],
                 i, t.slotIdx + 1, 0, <<>>)

\* Promise.all settles: with the first rejection, or when all are fulfilled
AllSettled(kids) ==
    \/ \E n \in 1..Len(kids) : task[kids[n]].pc = "rejected"
    \/ \A n \in 1..Len(kids) : task[kids[n]].pc = "fulfilled"

RECURSIVE KidsCalls(_)
KidsCalls(kids) ==
    IF kids = <<>> THEN <<>>
    ELSE StartTask(Head(kids)).calls \o KidsCalls(Tail(kids))

Times(j, kids) == Cardinality({n \in 1..Len(kids) : kids[n] = j})

\* the module of an entry is kept after its first load: the loader is not
\* invoked for a record when it was invoked before for a record of the same
\* key
Apply_memoized(i, out) ==
    /\ task' = [j \in Idx |->
                   IF j \in Range(out.kids) THEN StartTask(j).task
                   ELSE IF j = i THEN out.task
                   ELSE task[j]]
    /\ renders' = [j \in Idx |-> renders[j] + Times(j, out.kids)]
    /\ loaderCalls' =
           [j \in Idx |->
               IF /\ j \in Range(out.kids)
                  /\ StartTask(j).task.pc = "loading"
                  /\ ~\E q \in Idx \ {j} :
                         loaderCalls[q] > 0 /\ task[q].key = StartTask(j).task.key
               THEN loaderCalls[j] + Times(j, out.kids)
               ELSE loaderCalls[j]]
    /\ parseCalls' = [j \in Idx |->
                         IF j = i THEN parseCalls[j] + out.parse
                         ELSE parseCalls[j]]
    /\ tpCalls' = [j \in Idx |->
                      IF j = i THEN tpCalls[j] \o out.tp ELSE tpCalls[j]]
    /\ tpEarly' = [j \in Idx |->
                      IF j = i /\ out.tp # <<>>
                      THEN \A c \in Range(ChildrenOf(canvasComponents[j].uuid)) :
                               renders[c] = 0
                      ELSE tpEarly[j]]
    /\ onErrorCalls' = onErrorCalls \o out.calls \o KidsCalls(out.kids)

\* the state after record i (0: the call itself) made the step with outcome
\* out and every child in out.kids has run the synchronous start of its own
\* renderComponent (slotChildren.map((child) => renderComponent(child)))
Apply(i, out) ==
    /\ task' = [j \in Idx |->
                   IF j \in Range(out.kids) THEN StartTask(j).task
                   ELSE IF j = i THEN out.task
                   ELSE task[j]]
    /\ renders' = [j \in Idx |-> renders[j] + Times(j, out.kids)]
    /\ loaderCalls' =
           [j \in Idx |->
               IF j \in Range(out.kids) /\ StartTask(j).task.pc = "loading"
               THEN loaderCalls[j] + Times(j, out.kids)
               ELSE loaderCalls[j]]
    /\ parseCalls' = [j \in Idx |->
                         IF j = i THEN parseCalls[j] + out.parse
                         ELSE parseCalls[j]]
    /\ tpCalls' = [j \in Idx |->
                      IF j = i THEN tpCalls[j] \o out.tp ELSE tpCalls[j]]
    /\ tpEarly' = [j \in Idx |->
                      IF j = i /\ out.tp # <<>>
                      THEN \A c \in Range(ChildrenOf(canvasComponents[j].uuid)) :
                               renders[c] = 0
                      ELSE tpEarly[j]]
    /\ onErrorCalls' = onErrorCalls \o out.calls \o KidsCalls(out.kids)

----------------------------------------------------------------------------
(* The actions *)

\* records i and j are rendered by the same Promise.all
SameBucket(i, j) ==
    /\ canvasComponents[i].parent_uuid = canvasComponents[j].parent_uuid
    /\ SlotOf(canvasComponents[i]) = SlotOf(canvasComponents[j])

\* the roots are read without the fallback to an empty list:
\* getChildrenBySlot(null).get('children').map(...) throws when no record
\* is a root
Call_noFallback ==
    /\ callState = "init"
    /\ IF RootComponents = <<>>
       THEN /\ callState' = "rejected"
            /\ callError' = ErrorOf("TypeError: cannot read properties of undefined")
            /\ UNCHANGED <<task, renders, loaderCalls, parseCalls, tpCalls,
                           tpEarly, onErrorCalls>>
       ELSE /\ callState' = "running"
            /\ Apply(0, Outcome(IdleTask, <<>>, 0, <<>>, RootComponents))
            /\ UNCHANGED callError
    /\ UNCHANGED <<canvasComponents, idPrefix, onErrorMode, callResult,
                   overtook, logged, browser, parked, cli>>

\* renderCanvasComponents is called: lines 132-133 up to the await
Call ==
    /\ callState = "init"
    /\ callState' = "running"
    /\ Apply(0, Outcome(IdleTask, <<>>, 0, <<>>, RootComponents))
    /\ UNCHANGED <<canvasComponents, idPrefix, onErrorMode, callResult,
                   callError, overtook, logged, browser, parked, cli>>

\* the loader invoked for record i settles and renderComponent(i) runs on
LoaderSettles(i) ==
    /\ task[i].pc = "loading"
    /\ Apply(i, AfterLoader(task[i], i))
    /\ overtook' = IF \E j \in 1..(i-1) : SameBucket(i, j) /\ task[j].pc = "loading"
                   THEN overtook \cup {i} ELSE overtook
    /\ UNCHANGED <<canvasComponents, idPrefix, onErrorMode, callState,
                   callResult, callError, logged, browser, parked, cli>>

\* Promise.all of the bucket record i awaits settles and it runs on
SlotSettles(i) ==
    /\ task[i].pc = "awaitSlot"
    /\ AllSettled(SlotChildren(canvasComponents[i].uuid,
                      SlotNames(canvasComponents[i].uuid)[task[i].slotIdx]))
    /\ Apply(i, AfterSlot(task[i], i))
    /\ UNCHANGED <<canvasComponents, idPrefix, onErrorMode, callState,
                   callResult, callError, overtook, logged, browser, parked, cli>>

\* the roots that failed are filtered out of the list
CallSettles_dropNull ==
    /\ callState = "running"
    /\ AllSettled(RootComponents)
    /\ callState' = "resolved"
    /\ callResult' = LET all == [n \in 1..Len(RootComponents) |->
                                    task[RootComponents[n]].result]
                     IN  SelectSeq(all, LAMBDA r : r # NullNode)
    /\ UNCHANGED callError
    /\ UNCHANGED <<canvasComponents, idPrefix, onErrorMode, task, renders,
                   loaderCalls, parseCalls, tpCalls, tpEarly, onErrorCalls,
                   overtook, logged, browser, parked, cli>>

\* Promise.all of the roots settles: the call resolves or rejects
CallSettles ==
    /\ callState = "running"
    /\ AllSettled(RootComponents)
    /\ IF \E n \in 1..Len(RootComponents) : task[RootComponents[n]].pc = "rejected"
       THEN /\ callState' = "rejected"
            /\ callResult' = <<>>
            /\ \E n \in 1..Len(RootComponents) :
                   /\ task[RootComponents[n]].pc = "rejected"
                   /\ callError' = task[RootComponents[n]].error
       ELSE /\ callState' = "resolved"
            /\ callResult' = [n \in 1..Len(RootComponents) |->
                                 task[RootComponents[n]].result]
            /\ UNCHANGED callError
    /\ UNCHANGED <<canvasComponents, idPrefix, onErrorMode, task, renders,
                   loaderCalls, parseCalls, tpCalls, tpEarly, onErrorCalls,
                   overtook, logged, browser, parked, cli>>

Next ==
    \/ Call
    \/ \E i \in Idx : LoaderSettles(i)
    \/ \E i \in Idx : SlotSettles(i)
    \/ CallSettles

----------------------------------------------------------------------------
(* The strict legacy renderer (src/unnamed/part_006, lines 11-114): the    *)
(* same traversal without try / catch, without idPrefix, and with the      *)
(* default export only                                                     *)

\* new Error(`Component "${componentKey}" ...`)
KeyError(message, key) == [isError |-> TRUE, message |-> message, key |-> key]

\* an async function that throws: its promise is rejected with the error
Reject(t, err) == [t EXCEPT !.pc = "rejected", !.error = err]

Rejected(t, err, parse, tp) == Outcome(Reject(t, err), <<>>, parse, tp, <<>>)

\* the start of the current renderer, whose catch block returns null
StrictStartTask_contained(i) == StartTask(i)

\* lines 84-91 up to the await
StrictStartTask(i) ==
    LET k == ComponentIdToKey(canvasComponents[i].component_id, <<>>) IN
    IF k.thrown THEN Rejected(IdleTask, k.error, 0, <<>>)
    ELSE IF k.value \notin DOMAIN componentMap
    THEN Rejected(IdleTask, KeyError("not found in component map", k.value), 0, <<>>)
    ELSE Outcome([IdleTask EXCEPT !.pc = "loading", !.key = k.value],
                 <<>>, 0, <<>>, <<>>)

\* lines 91-102, once the loader of the entry has settled
StrictAfterLoader(t, i) ==
    LET entry == componentMap[t.key] IN
    IF entry.loader.settles = "reject"
    THEN Rejected(t, entry.loader.reason, 0, <<>>)
    ELSE
    LET Component == Export(entry.loader.module, DefaultName) IN
    IF ~Truthy(Component)
    THEN Rejected(t, KeyError("has no default export", t.key), 0, <<>>)
    ELSE
    LET inputs == JsonParse(canvasComponents[i].inputs) IN
    IF inputs.thrown THEN Rejected(t, inputs.error, 1, <<>>)
    ELSE
    LET hasTp == entry.transformProps # "none"
        props == IF hasTp
                 THEN TransformProps(entry.transformProps, inputs.value)
                 ELSE inputs
        tp == IF hasTp THEN <<inputs.value>> ELSE <<>>
    IN
    IF props.thrown THEN Rejected(t, props.error, 1, tp)
    ELSE EnterSlot([t EXCEPT !.type = Component, !.props = props.value],
                   i, 1, 1, tp)

\* lines 103-109, once Promise.all of the awaited bucket has settled; when
\* it rejected, with the reason of the child at position r of the bucket
StrictAfterSlot(t, i, r) ==
    LET uuid == canvasComponents[i].uuid
        name == SlotNames(uuid)[t.slotIdx]
        kids == SlotChildren(uuid, name)
    IN  IF \E n \in 1..Len(kids) : task[kids[n]].pc = "rejected"
        THEN Rejected(t, task[kids[r]].error, 0, <<>>)
        ELSE EnterSlot(
                 [t EXCEPT !.slots =
                     Spread(@, [s \in {name} |->
                         List([n \in 1..Len(kids) |-> task[kids[n]].result])])],
                 i, t.slotIdx + 1, 0, <<>>)

\* the state after record i (0: the call itself) made the step with outcome
\* out and every child in out.kids has run the synchronous start of its own
\* renderComponent
StrictApply(i, out) ==
    /\ task' = [j \in Idx |->
                   IF j \in Range(out.kids) THEN StrictStartTask(j).task
                   ELSE IF j = i THEN out.task
                   ELSE task[j]]
    /\ renders' = [j \in Idx |-> renders[j] + Times(j, out.kids)]
    /\ loaderCalls' =
           [j \in Idx |->
               IF j \in Range(out.kids) /\ StrictStartTask(j).task.pc = "loading"
               THEN loaderCalls[j] + Times(j, out.kids)
               ELSE loaderCalls[j]]
    /\ parseCalls' = [j \in Idx |->
                         IF j = i THEN parseCalls[j] + out.parse
                         ELSE parseCalls[j]]
    /\ tpCalls' = [j \in Idx |->
                      IF j = i THEN tpCalls[j] \o out.tp ELSE tpCalls[j]]
    /\ UNCHANGED <<tpEarly, onErrorCalls>>

\* the legacy renderCanvasComponents is called: lines 112-113
StrictCall ==
    /\ callState = "init"
    /\ callState' = "running"
    /\ StrictApply(0, Outcome(IdleTask, <<>>, 0, <<>>, RootComponents))
    /\ UNCHANGED <<canvasComponents, idPrefix, onErrorMode, callResult,
                   callError, overtook, logged, browser, parked, cli>>

StrictLoaderSettles(i) ==
    /\ task[i].pc = "loading"
    /\ StrictApply(i, StrictAfterLoader(task[i], i))
    /\ UNCHANGED <<canvasComponents, idPrefix, onErrorMode, callState,
                   callResult, callError, overtook, logged, browser, parked, cli>>

\* the positions of the bucket record i awaits
Awaited(i) ==
    SlotChildren(canvasComponents[i].uuid,
                 SlotNames(canvasComponents[i].uuid)[task[i].slotIdx])

StrictSlotSettles(i) ==
    /\ task[i].pc = "awaitSlot"
    /\ AllSettled(Awaited(i))
    /\ \E r \in 1..Len(Awaited(i)) :
           /\ (\E n \in 1..Len(Awaited(i)) : task[Awaited(i)[n]].pc = "rejected")
                  => task[Awaited(i)[r]].pc = "rejected"
           /\ StrictApply(i, StrictAfterSlot(task[i], i, r))
    /\ UNCHANGED <<canvasComponents, idPrefix, onErrorMode, callState,
                   callResult, callError, overtook, logged, browser, parked, cli>>

StrictNext ==
    \/ StrictCall
    \/ \E i \in Idx : StrictLoaderSettles(i)
    \/ \E i \in Idx : StrictSlotSettles(i)
    \/ CallSettles

----------------------------------------------------------------------------
(* The browser render function (preview): createRenderFunction(components) *)
(* of src/test/preview.test.ts, lines 138-168                              *)

N_Test == <<"T","e","s","t">>
N_Slot == <<"S","l","o","t">>
N_AcmeHero == <<"A","c","m","e","H","e","r","o">>
N_Image == <<"I","m","a","g","e","C","o","m","p","o","n","e","n","t">>
N_Hero == <<"H","e","r","o">>
N_NonExistent == <<"N","o","n","E","x","i","s","t","e","n","t">>
N_DrupalId == <<"n","s",".","a","c","m","e","_","h","e","r","o">>
N_Broken == <<"B","r","o","k","e","n">>
N_Thrower == <<"T","h","r","o","w","e","r">>
N_Offline == <<"O","f","f","l","i","n","e">>

\* the component maps of the preview tests, with three entries that fail:
\* a module without a valid export, a transformProps that throws and a
\* loader that rejects
previewComponents ==
    [k \in {N_Test, N_Slot, N_AcmeHero, N_Image, N_Broken, N_Thrower, N_Offline} |->
        CASE k = N_Test ->
               Entry(Resolves(<< <<DefaultName, Fn("TestComponent")>> >>), "none")
          [] k = N_Slot ->
               Entry(Resolves(<< <<DefaultName, Fn("SlotComponent")>> >>), "none")
          [] k = N_AcmeHero ->
               Entry(Resolves(<< <<DefaultName, Fn("TestComponent")>> >>), "none")
          [] k = N_Image ->
               Entry(Resolves(<< <<DefaultName, Fn("TestComponent")>> >>), "spread")
          [] k = N_Broken ->
               Entry(Resolves(<< <<DefaultName, PlainObject>> >>), "none")
          [] k = N_Thrower ->
               Entry(Resolves(<< <<DefaultName, Fn("TestComponent")>> >>), "throws")
          [] k = N_Offline ->
               Entry(Rejects(NonError("network down")), "none")]

\* new Error(`Component ${componentName} ...`)
NameError(message, name) == [isError |-> TRUE, message |-> message, name |-> name]

\* the entry is also found under the name with the prefix put before it
LookUp_prefixed(componentName) ==
    IF componentName \in DOMAIN previewComponents
    THEN Returned(previewComponents[componentName])
    ELSE IF Acme \o componentName \in DOMAIN previewComponents
    THEN Returned(previewComponents[Acme \o componentName])
    ELSE Thrown(NameError("not found", componentName))

\* const entry = components[componentName]; if (!entry) throw ...
LookUp(componentName) ==
    IF componentName \in DOMAIN previewComponents
    THEN Returned(previewComponents[componentName])
    ELSE Thrown(NameError("not found", componentName))

\* parse(html) of html-react-parser: the nodes the markup stands for
Parse(html) == [nodes |-> html]

\* the arguments the render function is called with
RenderNames ==
    {N_Test, N_AcmeHero, N_Image, N_Hero, N_NonExistent, N_DrupalId,
     N_Broken, N_Thrower, N_Offline}
RenderProps == { [title |-> Scalar("Hello")] }
RenderSlots ==
    { EmptyBag, [children |-> "<p>rich</p>"], [title |-> "<b>bold</b>"] }

\* render(container, componentName, props, slots) up to its await
Render(componentName, props, slots) ==
    /\ Len(renderCalls) < MaxCalls
    /\ LET entry == LookUp(componentName)
           call == [name |-> componentName, props |-> props, slots |-> slots,
                    pc |-> IF entry.thrown THEN "rejected" ELSE "loading",
                    error |-> IF entry.thrown THEN entry.error ELSE NonError(""),
                    tp |-> <<>>]
       IN  renderCalls' = Append(renderCalls, call)
    /\ UNCHANGED <<canvasComponents, idPrefix, onErrorMode, callState,
                   callResult, callError, task, renders, loaderCalls,
                   parseCalls, tpCalls, tpEarly, onErrorCalls, overtook,
                   logged, container, parked, cli>>

\* the arguments entry.transformProps is called with by the call, once its
\* loader has settled
TransformArgs(call) ==
    LET entry == previewComponents[call.name] IN
    IF entry.loader.settles = "reject" THEN <<>>
    ELSE IF ResolveComponent(entry.loader.module, call.name).thrown THEN <<>>
    ELSE IF entry.transformProps = "none" THEN <<>>
    ELSE <<call.props>>

\* the props are spread after the parsed slots, and transformProps is given
\* the props together with the slots
Mount_propsLast(call) ==
    LET entry == previewComponents[call.name] IN
    IF entry.loader.settles = "reject" THEN Thrown(entry.loader.reason)
    ELSE
    LET Component == ResolveComponent(entry.loader.module, call.name)
        parsedSlots == [n \in DOMAIN call.slots |-> Parse(call.slots[n])]
        finalProps == IF entry.transformProps # "none"
                      THEN TransformProps(entry.transformProps, call.props)
                      ELSE Returned(call.props)
    IN  IF Component.thrown THEN Component
        ELSE IF finalProps.thrown THEN finalProps
        ELSE Returned(CreateElement(Component.value,
                                    Spread(parsedSlots, finalProps.value)))

\* what the call does once its loader has settled: the error it rejects
\* with, or the element it renders into the container
Mount(call) ==
    LET entry == previewComponents[call.name] IN
    IF entry.loader.settles = "reject" THEN Thrown(entry.loader.reason)
    ELSE
    LET Component == ResolveComponent(entry.loader.module, call.name)
        parsedSlots == [n \in DOMAIN call.slots |-> Parse(call.slots[n])]
        finalProps == IF entry.transformProps # "none"
                      THEN TransformProps(entry.transformProps, call.props)
                      ELSE Returned(call.props)
    IN  IF Component.thrown THEN Component
        ELSE IF finalProps.thrown THEN finalProps
        ELSE Returned(CreateElement(Component.value,
                                    Spread(finalProps.value, parsedSlots)))

\* a call that fails empties the container before it rejects
RenderLoaderSettles_clearFirst(c) ==
    /\ c \in 1..Len(renderCalls)
    /\ renderCalls[c].pc = "loading"
    /\ LET el == Mount(renderCalls[c]) IN
       IF el.thrown
       THEN /\ renderCalls' = [renderCalls EXCEPT ![c].pc = "rejected",
                                                   ![c].error = el.error,
                                                   ![c].tp = TransformArgs(renderCalls[c])]
            /\ container' = <<>>
       ELSE /\ renderCalls' = [renderCalls EXCEPT ![c].pc = "fulfilled",
                                                   ![c].tp = TransformArgs(renderCalls[c])]
            /\ container' = Append(container, [call |-> c, element |-> el.value])
    /\ UNCHANGED <<canvasComponents, idPrefix, onErrorMode, callState,
                   callResult, callError, task, renders, loaderCalls,
                   parseCalls, tpCalls, tpEarly, onErrorCalls, overtook, logged,
                   parked, cli>>

\* the loader of call c settles and render runs to its end: the element is
\* rendered by a new root of the container (createRoot(container).render(el))
RenderLoaderSettles(c) ==
    /\ c \in 1..Len(renderCalls)
    /\ renderCalls[c].pc = "loading"
    /\ LET el == Mount(renderCalls[c]) IN
       IF el.thrown
       THEN /\ renderCalls' = [renderCalls EXCEPT ![c].pc = "rejected",
                                                   ![c].error = el.error,
                                                   ![c].tp = TransformArgs(renderCalls[c])]
            /\ UNCHANGED container
       ELSE /\ renderCalls' = [renderCalls EXCEPT ![c].pc = "fulfilled",
                                                   ![c].tp = TransformArgs(renderCalls[c])]
            /\ container' = Append(container, [call |-> c, element |-> el.value])
    /\ UNCHANGED <<canvasComponents, idPrefix, onErrorMode, callState,
                   callResult, callError, task, renders, loaderCalls,
                   parseCalls, tpCalls, tpEarly, onErrorCalls, overtook, logged,
                   parked, cli>>

BrowserNext ==
    \/ \E name \in RenderNames, props \in RenderProps, slots \in RenderSlots :
           Render(name, props, slots)
    \/ \E c \in 1..MaxCalls : RenderLoaderSettles(c)

----------------------------------------------------------------------------
(* Two calls of renderCanvasComponents in progress at once.  The variables *)
(* of the call hold the closure of the call whose continuation runs;       *)
(* parked holds the closure of the other call while it waits at an await.  *)

\* no second call
NoCall == [who |-> 0]

\* the closure of one call (server.ts:75-81): its arguments and the
\* promises made under it
Closure ==
    [canvasComponents |-> canvasComponents, onErrorMode |-> onErrorMode,
     callState |-> callState, callResult |-> callResult,
     callError |-> callError, task |-> task, renders |-> renders,
     loaderCalls |-> loaderCalls, parseCalls |-> parseCalls,
     tpCalls |-> tpCalls, tpEarly |-> tpEarly,
     onErrorCalls |-> onErrorCalls, overtook |-> overtook]

\* getChildrenBySlot reads a list kept at module level, which is the list
\* of the call that ran last
GroupedList_moduleLevel(closure) == canvasComponents

\* the list getChildrenBySlot of a call filters (server.ts:85): the
\* canvasComponents parameter of that call
GroupedList(closure) == closure.canvasComponents

\* the event loop turns from a continuation of one call to a continuation
\* of the other (the awaits of server.ts:108, 117 and 133)
Switch ==
    /\ parked.who # 0
    /\ parked' = [parked EXCEPT
                      !.who = 3 - @,
                      !.closure = Closure,
                      !.interleaved =
                          \/ @
                          \/ /\ callState = "running"
                             /\ parked.closure.callState = "running"]
    /\ canvasComponents' = GroupedList(parked.closure)
    /\ onErrorMode' = parked.closure.onErrorMode
    /\ callState' = parked.closure.callState
    /\ callResult' = parked.closure.callResult
    /\ callError' = parked.closure.callError
    /\ task' = parked.closure.task
    /\ renders' = parked.closure.renders
    /\ loaderCalls' = parked.closure.loaderCalls
    /\ parseCalls' = parked.closure.parseCalls
    /\ tpCalls' = parked.closure.tpCalls
    /\ tpEarly' = parked.closure.tpEarly
    /\ onErrorCalls' = parked.closure.onErrorCalls
    /\ overtook' = parked.closure.overtook
    /\ UNCHANGED <<idPrefix, logged, browser, cli>>

TwoNext == Next \/ Switch

----------------------------------------------------------------------------
(* Loading the config (config.ts, src/unnamed/part_005)                    *)

\* A config value by the type of what it is and of its fields: null, a
\* string, or an object whose fields outDir, componentMap and components
\* are each undefined or of the type named
CfgNull == [type |-> "null"]
CfgText == [type |-> "string"]
CfgObject(outDir, componentMapPath, components) ==
    [type |-> "object", outDir |-> outDir, componentMap |-> componentMapPath,
     components |-> components]

CfgObjects ==
    { CfgObject(o, m, c) :
        o \in {"undefined", "string", "number"},
        m \in {"undefined", "string"},
        c \in {"undefined", "object"} }

\* a file that does not exist
Missing == [exists |-> FALSE]

\* canvas.config.ts / canvas.config.js: a module with a default export and
\* named exports, or a file whose import fails
ConfigModule(default, named) ==
    [exists |-> TRUE, loads |-> TRUE, default |-> default, named |-> named]
BrokenModule == [exists |-> TRUE, loads |-> FALSE]

NoExport == [type |-> "undefined"]

ConfigModules ==
    { ConfigModule(d, CfgObject("undefined", "undefined", "undefined")) :
        d \in CfgObjects \cup {CfgText} }
    \cup { ConfigModule(d, n) :
             d \in {NoExport, CfgNull},
             n \in { CfgObject("undefined", "undefined", "undefined"),
                     CfgObject("string", "string", "object") } }
    \cup {BrokenModule}

\* package.json: not valid JSON, or an object whose drupal-canvas field is
\* the given value
Malformed == [exists |-> TRUE, parses |-> FALSE]
PackageJson(field) == [exists |-> TRUE, parses |-> TRUE, field |-> field]

PackageFiles ==
    {Malformed} \cup { PackageJson(f) : f \in CfgObjects \cup {CfgText, CfgNull, NoExport} }

\* the working directory: what canvas.config.ts, canvas.config.js and
\* package.json hold
Dir(ts, js, pkg) == [ts |-> ts, js |-> js, pkg |-> pkg]
EmptyDir == Dir(Missing, Missing, Missing)

\* new Error(`Invalid config from ${source}: ${field} ${message}`)
ConfigError(source, field, message) ==
    [isError |-> TRUE, source |-> source, field |-> field, message |-> message]

\* !config, for the config values of the model
Falsy(config) == config.type \in {"null", "undefined"}

\* validateConfig(config, source), lines 16-32
ValidateConfig(config, source) ==
    IF Falsy(config) \/ config.type # "object"
    THEN Thrown(ConfigError(source, "", "must be an object"))
    ELSE IF config.componentMap # "string"
    THEN Thrown(ConfigError(source, "componentMap", "is required and must be a string"))
    ELSE IF config.outDir # "string"
    THEN Thrown(ConfigError(source, "outDir", "is required and must be a string"))
    ELSE Returned(config)

\* the promise of loadConfig
NotCalled ==
    [pc |-> "init", source |-> "", found |-> NoExport, value |-> NoExport,
     error |-> NonError("")]

\* the promise settled with what validateConfig returned or threw
Validated(call, config, source) ==
    LET v == ValidateConfig(config, source) IN
    IF v.thrown
    THEN [call EXCEPT !.pc = "rejected", !.source = source, !.found = config,
                      !.error = v.error]
    ELSE [call EXCEPT !.pc = "resolved", !.source = source, !.found = config,
                      !.value = v.value]

NoConfigFound == ErrorOf("No config found")

\* loadConfig(cwd) up to its first await (lines 40-69): the import of the
\* first config file that exists, or package.json read to the end
LoadConfig ==
    /\ configCall.pc = "init"
    /\ configCall' =
           IF cwdFiles.ts.exists
           THEN [configCall EXCEPT !.pc = "importing", !.source = "canvas.config.ts"]
           ELSE IF cwdFiles.js.exists
           THEN [configCall EXCEPT !.pc = "importing", !.source = "canvas.config.js"]
           ELSE IF ~cwdFiles.pkg.exists
           THEN [configCall EXCEPT !.pc = "rejected", !.error = NoConfigFound]
           ELSE IF ~cwdFiles.pkg.parses
           THEN [configCall EXCEPT !.pc = "rejected",
                                   !.source = "package.json",
                                   !.error = ErrorOf("SyntaxError: unexpected token")]
           ELSE IF Falsy(cwdFiles.pkg.field)
           THEN [configCall EXCEPT !.pc = "rejected", !.error = NoConfigFound]
           ELSE Validated(configCall, cwdFiles.pkg.field, "package.json#drupal-canvas")
    /\ UNCHANGED <<canvasComponents, idPrefix, onErrorMode, callState,
                   callResult, callError, task, renders, loaderCalls,
                   parseCalls, tpCalls, tpEarly, onErrorCalls, overtook, logged,
                   browser, parked, cwdFiles>>

\* the import of the config file settles (lines 44-46, 52-54):
\* module.default || module is validated
ModuleImported ==
    /\ configCall.pc = "importing"
    /\ LET file == IF configCall.source = "canvas.config.ts"
                   THEN cwdFiles.ts ELSE cwdFiles.js
       IN  configCall' =
               IF ~file.loads
               THEN [configCall EXCEPT !.pc = "rejected",
                                       !.error = ErrorOf("import failed")]
               ELSE Validated(configCall,
                              IF Falsy(file.default) THEN file.named ELSE file.default,
                              configCall.source)
    /\ UNCHANGED <<canvasComponents, idPrefix, onErrorMode, callState,
                   callResult, callError, task, renders, loaderCalls,
                   parseCalls, tpCalls, tpEarly, onErrorCalls, overtook, logged,
                   browser, parked, cwdFiles>>

ConfigNext == LoadConfig \/ ModuleImported

----------------------------------------------------------------------------
(* Initial states: the arguments of one call *)

\* before renderCanvasComponents is called
InitServer ==
    /\ callState = "init"
    /\ callResult = <<>>
    /\ callError = NonError("")
    /\ task = [i \in Idx |-> IdleTask]
    /\ renders = [i \in Idx |-> 0]
    /\ loaderCalls = [i \in Idx |-> 0]
    /\ parseCalls = [i \in Idx |-> 0]
    /\ tpCalls = [i \in Idx |-> <<>>]
    /\ tpEarly = [i \in Idx |-> TRUE]
    /\ onErrorCalls = <<>>
    /\ overtook = {}
    /\ logged = <<>>

\* one call of renderCanvasComponents: nothing was rendered in the browser,
\* no second call is in progress and no config is being loaded
InitRun ==
    /\ InitServer
    /\ renderCalls = <<>>
    /\ container = <<>>
    /\ parked = NoCall
    /\ cwdFiles = EmptyDir
    /\ configCall = NotCalled

OnErrorModes == {"absent", "node", "undefined", "throws"}

\* records that fail in each of the ways renderComponent can fail
FaultContents ==
    { <<C_ok, J_title>>, <<C_missing, J_title>>, <<C_rej, J_title>>,
      <<C_bad, J_title>>, <<C_ok, J_bad>>, <<C_tt, J_title>> }

\* the lists of the given contents in which every record is a root or
\* names a parent from Parents(i), with a slot from slots
Lists(Parents(_), slots, contents) ==
    { [i \in Idx |-> Record(i, ps[i], ss[i], cn[i])] :
        ps \in { f \in [Idx -> {null} \cup {Uuid(j) : j \in Idx}] :
                   \A i \in Idx : f[i] \in {null} \cup Parents(i) },
        ss \in [Idx -> slots],
        cn \in [Idx -> contents] }

Earlier(i) == {Uuid(j) : j \in 1..(i-1)}

\* any tree shape in which a child follows its parent in the list
Init ==
    /\ canvasComponents \in Lists(Earlier, {null}, FaultContents)
    /\ idPrefix = <<>>
    /\ onErrorMode \in OnErrorModes
    /\ InitRun

Spec == Init /\ [][Next]_vars

\* every parent reference (to itself, to a later record, around a cycle)
\* and every spelling of the slot, with records that all render
Anyone(i) == {Uuid(j) : j \in Idx}

SlotSpellings == {null, "", "children", "header"}

InitTree ==
    /\ canvasComponents \in Lists(Anyone, SlotSpellings, {<<C_ok, J_title>>})
    /\ idPrefix = <<>>
    /\ onErrorMode = "absent"
    /\ InitRun

SpecTree == InitTree /\ [][Next]_vars

\* records whose inputs and transformProps differ, under one parent
PropContents ==
    { <<C_ok, J_title>>, <<C_ok, J_key>>, <<C_tp, J_title>>, <<C_tp, J_key>>,
      <<C_tp, J_bad>>, <<C_tt, J_title>> }

First(i) == IF i = 1 THEN {} ELSE {Uuid(1)}

InitProps ==
    /\ canvasComponents \in
           { cs \in Lists(First, {null, "header"}, PropContents) :
               \A i \in Idx : cs[i].parent_uuid = null => cs[i].slot = null }
    /\ idPrefix = <<>>
    /\ onErrorMode = "absent"
    /\ InitRun

SpecProps == InitProps /\ [][Next]_vars

\* children in a slot named like a prop of their parent
CollideContents == { <<C_ok, J_title>>, <<C_ok, J_two>>, <<C_tp, J_two>> }

InitCollide ==
    /\ canvasComponents \in
           { cs \in Lists(First, {null, "title", "body"}, CollideContents) :
               \A i \in Idx : cs[i].parent_uuid = null => cs[i].slot = null }
    /\ idPrefix = <<>>
    /\ onErrorMode = "absent"
    /\ InitRun

SpecCollide == InitCollide /\ [][Next]_vars

\* component ids of every shape, with and without idPrefix, as roots, the
\* second record also as a child of the first
KeyContents ==
    { <<id, J_title>> :
        id \in {I_text_block, I_acme_text_block, I_acme_twice, I_card_grid,
                I_extra_segment, I_empty_words, I_inner_capital, I_no_dot} }

Second(i) == IF i = 2 THEN {Uuid(1)} ELSE {}

InitKey ==
    /\ canvasComponents \in Lists(Second, {null}, KeyContents)
    /\ idPrefix \in {<<>>, Acme}
    /\ onErrorMode = "absent"
    /\ InitRun

SpecKey == InitKey /\ [][Next]_vars

\* a parent_uuid that is the uuid of no record
Gone == "gone"

\* records that are roots, children of an earlier record, or name a parent
\* that is not in the list; some of them would fail if they were visited
InitOrphan ==
    /\ canvasComponents \in
           { [i \in Idx |-> Record(i, ps[i], null, cn[i])] :
               ps \in { f \in [Idx -> {null, Gone} \cup {Uuid(j) : j \in Idx}] :
                          \A i \in Idx : f[i] \in {null, Gone} \cup Earlier(i) },
               cn \in [Idx -> { <<C_ok, J_title>>, <<C_missing, J_title>> }] }
    /\ idPrefix = <<>>
    /\ onErrorMode \in {"absent", "node"}
    /\ InitRun

SpecOrphan == InitOrphan /\ [][Next]_vars

\* the module key of a module whose only export is named like the key
K_NamedOnly == <<"M", "u", "f", "u", "u">>

\* records of the legacy tests: rendering, not in the component map, and
\* with a module that has no default export
StrictContents ==
    { <<C_ok, J_title>>, <<C_missing, J_title>>, <<ModuleId(K_NamedOnly), J_title>> }

InitStrict ==
    /\ canvasComponents \in Lists(Earlier, {null, "header"}, StrictContents)
    /\ idPrefix = <<>>
    /\ onErrorMode = "absent"
    /\ InitRun

SpecStrict == InitStrict /\ [][StrictNext]_vars

\* the browser side alone: no server call is made
InitBrowser ==
    /\ canvasComponents = [i \in Idx |-> Record(i, null, null, <<C_ok, J_title>>)]
    /\ idPrefix = <<>>
    /\ onErrorMode = "absent"
    /\ InitRun

SpecBrowser == InitBrowser /\ [][BrowserNext]_vars

\* every parent reference (to itself, to a later record, around a cycle),
\* with records that fail and an onError that throws
InitCycle ==
    /\ canvasComponents \in
           Lists(Anyone, {null}, { <<C_ok, J_title>>, <<C_missing, J_title>> })
    /\ idPrefix = <<>>
    /\ onErrorMode \in {"absent", "throws"}
    /\ InitRun

SpecCycle == InitCycle /\ [][Next]_vars

\* records that fail in every way a collaborator can make them fail: a
\* component_id without '.', inputs that are not JSON, a loader that
\* rejects, a transformProps that throws; with every behaviour of onError
HostileContents ==
    { <<C_ok, J_title>>, <<I_no_dot, J_title>>, <<C_ok, J_bad>>,
      <<C_rej, J_title>>, <<C_tt, J_title>> }

InitHostile ==
    /\ canvasComponents \in Lists(Earlier, {null}, HostileContents)
    /\ idPrefix = <<>>
    /\ onErrorMode \in OnErrorModes
    /\ InitRun

SpecHostile == InitHostile /\ [][Next]_vars

\* the closure of a call that has not run yet (server.ts:75-81)
FreshClosure(list, mode) ==
    [canvasComponents |-> list, onErrorMode |-> mode,
     callState |-> "init", callResult |-> <<>>,
     callError |-> NonError(""), task |-> [i \in Idx |-> IdleTask],
     renders |-> [i \in Idx |-> 0], loaderCalls |-> [i \in Idx |-> 0],
     parseCalls |-> [i \in Idx |-> 0], tpCalls |-> [i \in Idx |-> <<>>],
     tpEarly |-> [i \in Idx |-> TRUE], onErrorCalls |-> <<>>,
     overtook |-> {}]

\* two calls over the same component map, with lists that differ in their
\* parents and in their inputs; args keeps the lists as they were passed
InitTwo ==
    /\ canvasComponents \in
           Lists(First, {null}, { <<C_ok, J_title>>, <<C_missing, J_title>> })
    /\ idPrefix = <<>>
    /\ onErrorMode = "node"
    /\ InitServer
    /\ renderCalls = <<>>
    /\ container = <<>>
    /\ cwdFiles = EmptyDir
    /\ configCall = NotCalled
    /\ \E other \in Lists(First, {null}, { <<C_ok, J_two>> }) :
           parked = [who |-> 2,
                     closure |-> FreshClosure(other, "absent"),
                     args |-> <<canvasComponents, other>>,
                     interleaved |-> FALSE]

SpecTwo == InitTwo /\ [][TwoNext]_vars

\* records without a parent in the default and in a named slot, children
\* of earlier records and of themselves in either slot, some of which fail,
\* with an onError that is absent, returns a node or throws
EarlierOrSelf(i) == {Uuid(j) : j \in 1..i}

InitVisit ==
    /\ canvasComponents \in
           Lists(EarlierOrSelf, {null, "header"},
                 { <<C_ok, J_title>>, <<C_missing, J_title>> })
    /\ idPrefix = <<>>
    /\ onErrorMode \in {"absent", "node", "throws"}
    /\ InitRun

SpecVisit == InitVisit /\ [][Next]_vars

\* the lists of every length from none to NumRecords records
ShortLists ==
    { SubSeq(cs, 1, n) :
        cs \in Lists(Earlier, {null}, { <<C_ok, J_title>>, <<C_missing, J_title>> }),
        n \in 0..NumRecords }

InitShort ==
    /\ canvasComponents \in ShortLists
    /\ idPrefix \in {<<>>, Acme}
    /\ onErrorMode \in {"absent", "node"}
    /\ InitRun

SpecShort == InitShort /\ [][Next]_vars

\* a working directory with any of the three config files, each holding a
\* config of any shape
InitConfig ==
    /\ canvasComponents = [i \in Idx |-> Record(i, null, null, <<C_ok, J_title>>)]
    /\ idPrefix = <<>>
    /\ onErrorMode = "absent"
    /\ InitServer
    /\ renderCalls = <<>>
    /\ container = <<>>
    /\ parked = NoCall
    /\ cwdFiles \in { Dir(ts, js, pkg) :
                         ts \in {Missing} \cup ConfigModules,
                         js \in {Missing} \cup ConfigModules,
                         pkg \in {Missing} \cup PackageFiles }
    /\ configCall = NotCalled

SpecConfig == InitConfig /\ [][ConfigNext]_vars

\* a first record whose module has any shape, with a child and further roots
\* that render, and an onError that returns a node
InitResolve ==
    /\ canvasComponents \in
           { [i \in Idx |->
                 Record(i, IF i = 2 THEN Uuid(1) ELSE null, null,
                        IF i = 1 THEN <<ModuleId(k), J_title>> ELSE <<C_ok, J_title>>)] :
             k \in ModuleKeys }
    /\ idPrefix = <<>>
    /\ onErrorMode = "node"
    /\ InitRun

SpecResolve == InitResolve /\ [][Next]_vars

----------------------------------------------------------------------------
(* Order of the rendered children and roots *)

\* record p was rendered: its element was created and no error was caught
Rendered(p) == task[p].pc = "fulfilled" /\ ~task[p].caught

\* the result of record j stands for record j: an element keyed by its uuid,
\* the substitute onError returned for it, or null
ResultOf(j) ==
    LET r == task[j].result IN
    IF ~task[j].caught THEN r.kind = "element" /\ r.key = Uuid(j)
    ELSE IF onErrorMode = "node"
    THEN r.kind = "element" /\ r.props["failed"] = Scalar(Uuid(j))
    ELSE r = NullNode

\* the records with parent p and slot s (no slot or an empty slot counting
\* as "children"), in the order of the input list
ClaimedChildren(p, s) ==
    SelectSeq(Positions,
              LAMBDA j :
                  /\ canvasComponents[j].parent_uuid = canvasComponents[p].uuid
                  /\ \/ canvasComponents[j].slot = s
                     \/ s = "children" /\ canvasComponents[j].slot \in {null, ""})

\* C1: for every rendered record p and slot name s, the list under p's prop s
\* holds exactly the results of the records with parent p and slot s (no or
\* empty slot counting as "children"), in input order, in every interleaving
\* of the loaders.
C1_SlotListsInInputOrder ==
    \A p \in Idx :
        Rendered(p) =>
            \A s \in {"children", "header"} :
                LET kids == ClaimedChildren(p, s)
                    props == task[p].result.props
                IN  IF kids = <<>>
                    THEN s \notin DOMAIN props
                    ELSE /\ s \in DOMAIN props
                         /\ props[s] =
                                List([n \in 1..Len(kids) |-> task[kids[n]].result])
                         /\ \A n \in 1..Len(kids) : ResultOf(kids[n])

\* a parent was rendered with two children in one bucket, spelled with and
\* without a slot name, the later of which finished loading first
C1_Witness ==
    \E p \in Idx :
        /\ Rendered(p)
        /\ LET kids == ClaimedChildren(p, "children") IN
           /\ Len(kids) >= 2
           /\ canvasComponents[kids[1]].slot # canvasComponents[kids[2]].slot
           /\ kids[2] \in overtook

\* the records without a parent and with the default slot, in input order
ClaimedRoots ==
    SelectSeq(Positions,
              LAMBDA j :
                  /\ canvasComponents[j].parent_uuid = null
                  /\ canvasComponents[j].slot \in {null, "", "children"})

\* C2: the list the call resolves to has one entry per record with no parent
\* and the default slot, and its i-th entry is the result of the i-th such
\* record of the input, in every interleaving of the loaders.
C2_RootsInInputOrder ==
    callState = "resolved" =>
        /\ Len(callResult) = Len(ClaimedRoots)
        /\ \A n \in 1..Len(ClaimedRoots) :
               /\ callResult[n] = task[ClaimedRoots[n]].result
               /\ ResultOf(ClaimedRoots[n])

\* the call resolved with two roots of which the later finished loading
\* first, and left out a record without a parent in a named slot
C2_Witness ==
    /\ callState = "resolved"
    /\ Len(callResult) = 2
    /\ ClaimedRoots[2] \in overtook
    /\ \E j \in Idx : /\ canvasComponents[j].parent_uuid = null
                      /\ canvasComponents[j].slot = "header"

----------------------------------------------------------------------------
(* Containment of failures *)

\* onError is absent or returns normally
Contained == onErrorMode # "throws"

\* the position of the record with the given uuid, 0 when there is none
IndexOf(uuid) ==
    IF \E j \in Idx : canvasComponents[j].uuid = uuid
    THEN CHOOSE j \in Idx : canvasComponents[j].uuid = uuid
    ELSE 0

ParentOf(j) == IndexOf(canvasComponents[j].parent_uuid)

RECURSIVE AncestorsUpTo(_, _)
AncestorsUpTo(j, n) ==
    IF n = 0 \/ ParentOf(j) = 0 THEN {}
    ELSE {ParentOf(j)} \cup AncestorsUpTo(ParentOf(j), n - 1)

Ancestors(j) == AncestorsUpTo(j, NumRecords)
Descendants(j) == {d \in Idx : j \in Ancestors(d)}
Siblings(j) == {q \in Idx \ {j} :
                   canvasComponents[q].parent_uuid = canvasComponents[j].parent_uuid}

\* what record j comes to on its own, before any child is looked at: the
\* error its rendering raises, or its component and props
OwnWork(j) ==
    LET k == ComponentIdToKey(canvasComponents[j].component_id, idPrefix) IN
    IF k.thrown THEN k
    ELSE IF k.value \notin DOMAIN componentMap
    THEN Thrown(ErrorOf("not found in component map"))
    ELSE
    LET entry == componentMap[k.value] IN
    IF entry.loader.settles = "reject" THEN Thrown(entry.loader.reason)
    ELSE
    LET resolved == ResolveComponent(entry.loader.module, k.value)
        inputs == JsonParse(canvasComponents[j].inputs)
    IN
    IF resolved.thrown THEN resolved
    ELSE IF inputs.thrown THEN inputs
    ELSE
    LET props == IF entry.transformProps = "none" THEN inputs
                 ELSE TransformProps(entry.transformProps, inputs.value)
    IN
    IF props.thrown THEN props
    ELSE Returned([type |-> resolved.value, props |-> props.value])

\* the result of record j as a function of the records of its subtree alone
RECURSIVE SubtreeResult(_)
SubtreeResult(j) ==
    LET own == OwnWork(j)
        slotsOf == {SlotOf(canvasComponents[c]) :
                       c \in {d \in Idx : ParentOf(d) = j}}
    IN  IF own.thrown
        THEN IF onErrorMode = "node"
             THEN Substitute(AsError(own.error), canvasComponents[j])
             ELSE NullNode
        ELSE CreateElement(own.value.type,
                 Config(Uuid(j), own.value.props,
                        [s \in slotsOf |->
                            LET kids == ClaimedChildren(j, s) IN
                            List([n \in 1..Len(kids) |-> SubtreeResult(kids[n])])]))

\* C3: when onError is absent or returns normally, no failure makes the call
\* or any renderComponent reject, and the result of every record is the one
\* its own subtree determines, whatever happened to its siblings.
C3_SiblingsUnaffected ==
    Contained =>
        /\ callState # "rejected"
        /\ \A j \in Idx :
               /\ task[j].pc # "rejected"
               /\ task[j].pc = "fulfilled" => task[j].result = SubtreeResult(j)

\* a record failed and a sibling that finished loading after the failure
\* was rendered all the same
C3_Witness ==
    /\ Contained
    /\ callState = "resolved"
    /\ \E r \in Idx :
           /\ task[r].caught
           /\ \E q \in Siblings(r) : q > r /\ Rendered(q) /\ loaderCalls[q] = 1

\* record j stands at its own position of the result: in the list of the
\* call when it is a root, in the slot list of its parent otherwise
InPlace(j) ==
    LET c == canvasComponents[j]
        s == IF c.slot \in {null, ""} THEN "children" ELSE c.slot
    IN  IF c.parent_uuid = null
        THEN callState = "resolved" /\ s = "children" =>
                 \E n \in 1..Len(ClaimedRoots) :
                     /\ ClaimedRoots[n] = j
                     /\ Len(callResult) = Len(ClaimedRoots)
                     /\ callResult[n] = task[j].result
        ELSE ParentOf(j) # 0 /\ Rendered(ParentOf(j)) =>
                 LET kids == ClaimedChildren(ParentOf(j), s)
                     props == task[ParentOf(j)].result.props
                 IN  \E n \in 1..Len(kids) :
                         /\ kids[n] = j
                         /\ s \in DOMAIN props
                         /\ props[s] = List([m \in 1..Len(kids) |-> task[kids[m]].result])

\* the calls of onError made for record j
CallsFor(j) ==
    {n \in 1..Len(onErrorCalls) : onErrorCalls[n].component = canvasComponents[j]}

\* C4: when onError is absent or returns normally, the error of a record r
\* stops at r: no ancestor of r fails, every ancestor that is done is an
\* element keyed by its own uuid, every ancestor is done when the call
\* resolves, onError is not called for an ancestor, and r's substitute or
\* null stands at r's position in its parent's slot list.
C4_CaughtAtOwnBoundary ==
    Contained =>
        \A r \in Idx :
            task[r].caught =>
                /\ task[r].pc = "fulfilled"
                /\ ResultOf(r)
                /\ InPlace(r)
                /\ \A a \in Ancestors(r) :
                       /\ ~task[a].caught
                       /\ CallsFor(a) = {}
                       /\ task[a].pc = "fulfilled" =>
                              /\ task[a].result.kind = "element"
                              /\ task[a].result.key = Uuid(a)
                       /\ callState = "resolved" => task[a].pc = "fulfilled"

\* a record two levels down failed after loading, was replaced by the
\* substitute of onError, and the call resolved with its ancestors rendered
C4_Witness ==
    /\ onErrorMode = "node"
    /\ callState = "resolved"
    /\ \E r \in Idx :
           /\ task[r].caught
           /\ loaderCalls[r] = 1
           /\ Cardinality(Ancestors(r)) = 2
           /\ \A a \in Ancestors(r) : Rendered(a)

\* some step of the call can be taken: a loader is pending, or a Promise.all
\* that is awaited has settled
CanStep ==
    \/ callState = "init"
    \/ \E i \in Idx : task[i].pc = "loading"
    \/ \E i \in Idx :
           /\ task[i].pc = "awaitSlot"
           /\ AllSettled(SlotChildren(canvasComponents[i].uuid,
                             SlotNames(canvasComponents[i].uuid)[task[i].slotIdx]))
    \/ callState = "running" /\ AllSettled(RootComponents)

\* C5: with no onError configured, every record that fails is null at its
\* position of the result, no promise rejects, and the call cannot stop
\* short of resolving.
C5_NullWithoutHandler ==
    onErrorMode = "absent" =>
        /\ callState # "rejected"
        /\ callState \in {"init", "running"} => CanStep
        /\ \A j \in Idx :
               task[j].caught =>
                   /\ task[j].pc = "fulfilled"
                   /\ task[j].result = NullNode
                   /\ InPlace(j)

\* a root whose key is not in the component map is null between two
\* rendered roots of the resolved call
C5_Witness ==
    /\ onErrorMode = "absent"
    /\ callState = "resolved"
    /\ Len(callResult) = 3
    /\ canvasComponents[2].component_id = C_missing
    /\ callResult[2] = NullNode
    /\ callResult[1] # NullNode
    /\ callResult[3] # NullNode

\* C6: a configured onError is called once for every record that fails and
\* never for another record; it is given an Error and the record itself;
\* what it returns stands at the record's position, null when it returns
\* nothing.
C6_OnErrorOncePerFailure ==
    onErrorMode # "absent" =>
        /\ \A n \in 1..Len(onErrorCalls) :
               /\ onErrorCalls[n].error.isError
               /\ \E j \in Idx : /\ onErrorCalls[n].component = canvasComponents[j]
                                 /\ task[j].caught
        /\ \A j \in Idx :
               /\ Cardinality(CallsFor(j)) = IF task[j].caught THEN 1 ELSE 0
               /\ task[j].caught /\ Contained =>
                      /\ task[j].pc = "fulfilled"
                      /\ InPlace(j)
                      /\ task[j].result =
                             IF onErrorMode = "node"
                             THEN Substitute(onErrorCalls[CHOOSE n \in CallsFor(j) : TRUE].error,
                                             canvasComponents[j])
                             ELSE NullNode

\* onError was called for a record whose loader rejected with a value that
\* is no Error, and its substitute stands in the resolved result next to a
\* rendered record for which it was not called
C6_Witness ==
    /\ onErrorMode = "node"
    /\ callState = "resolved"
    /\ \E j \in Idx :
           /\ canvasComponents[j].component_id = C_rej
           /\ task[j].caught
           /\ Cardinality(CallsFor(j)) = 1
           /\ \E n \in 1..Len(callResult) : callResult[n] = task[j].result
    /\ \E q \in Idx : Rendered(q) /\ CallsFor(q) = {}

\* C7: with no onError configured, the error of every record that fails
\* is in the log by the time the record's result is null.
C7_FailureIsLogged ==
    onErrorMode = "absent" =>
        \A j \in Idx :
            task[j].caught =>
                \E n \in 1..Len(logged) : logged[n].component = canvasComponents[j]

\* nothing of the subtree below record r was attempted
SubtreeUntouched(r) ==
    \A d \in Descendants(r) :
        /\ renders[d] = 0
        /\ loaderCalls[d] = 0
        /\ parseCalls[d] = 0
        /\ CallsFor(d) = {}
        /\ task[d].pc = "idle"

----------------------------------------------------------------------------
(* Key and props of the rendered element *)

\* C9: the element of every rendered record is keyed by the record's uuid,
\* whatever its inputs and the slots of its children.
C9_KeyIsUuid ==
    \A j \in Idx : Rendered(j) => task[j].result.key = Uuid(j)

\* the entry of record j, when its component_id leads to one
HasEntry(j) ==
    LET k == ComponentIdToKey(canvasComponents[j].component_id, idPrefix) IN
    ~k.thrown /\ k.value \in DOMAIN componentMap

EntryOf(j) ==
    componentMap[ComponentIdToKey(canvasComponents[j].component_id, idPrefix).value]

HasTransform(j) == HasEntry(j) /\ EntryOf(j).transformProps # "none"

\* record j was visited and its renderComponent has come to an end
Finished(j) == renders[j] > 0 /\ task[j].pc \in {"fulfilled", "rejected"}

\* C10 as stated: transformProps is called exactly once for every visited
\* record whose entry has one.
C10_TransformOncePerVisited ==
    \A j \in Idx : Finished(j) /\ HasTransform(j) => Len(tpCalls[j]) = 1

\* the component of record j resolved and its inputs were parsed
ReachedProps(j) ==
    /\ HasEntry(j)
    /\ task[j].pc \notin {"idle", "loading"}
    /\ EntryOf(j).loader.settles = "resolve"
    /\ ~ResolveComponent(EntryOf(j).loader.module, task[j].key).thrown
    /\ ~JsonParse(canvasComponents[j].inputs).thrown

\* the slot names under which record j has children
PopulatedSlots(j) ==
    {s \in {"children", "header"} : ClaimedChildren(j, s) # <<>>}

\* C10 amended: for every visited record whose component resolved and whose
\* inputs parsed, transformProps (when the entry has one) is called exactly
\* once, with the parsed inputs only, before any child of the record is
\* started, and it is never called otherwise; the props of the rendered
\* element other than its slots are the entries of the return value (of
\* the parsed inputs when there is no transformProps) other than key.
C10_TransformOnceWhenReached ==
    \A j \in Idx :
        LET parsed == JsonParse(canvasComponents[j].inputs) IN
        /\ Len(tpCalls[j]) =
               IF ReachedProps(j) /\ HasTransform(j) THEN 1 ELSE 0
        /\ tpCalls[j] # <<>> =>
               /\ tpCalls[j][1] = parsed.value
               /\ tpEarly[j]
        /\ \A c \in Idx :
               renders[c] > 0 /\ ParentOf(c) = j /\ HasTransform(j)
                   => Len(tpCalls[j]) = 1
        /\ Rendered(j) =>
               LET final == IF HasTransform(j)
                            THEN TransformProps(EntryOf(j).transformProps,
                                                parsed.value).value
                            ELSE parsed.value
                   props == task[j].result.props
               IN  /\ DOMAIN props \ PopulatedSlots(j) =
                          DOMAIN final \ ({"key"} \cup PopulatedSlots(j))
                   /\ \A n \in DOMAIN props \ PopulatedSlots(j) :
                          props[n] = final[n]

\* a record with transformProps and a child in a named slot was rendered
\* with the derived title, and a record without was rendered with its
\* parsed inputs
C10_Witness ==
    /\ callState = "resolved"
    /\ \E j \in Idx :
           /\ Rendered(j)
           /\ HasTransform(j)
           /\ Len(tpCalls[j]) = 1
           /\ task[j].result.props["title"] = Scalar("derived")
           /\ "header" \in PopulatedSlots(j)
    /\ \E q \in Idx :
           /\ Rendered(q)
           /\ ~HasTransform(q)
           /\ task[q].result.props["title"] = Scalar("First")

----------------------------------------------------------------------------
(* Slots and props of the same name *)

\* the final props of record j: what transformProps returns for its parsed
\* inputs, or the parsed inputs when its entry has no transformProps
FinalProps(j) ==
    LET parsed == JsonParse(canvasComponents[j].inputs).value IN
    IF HasTransform(j)
    THEN TransformProps(EntryOf(j).transformProps, parsed).value
    ELSE parsed

\* the slot names under which record j has children, of any spelling
SlotsOf(j) ==
    {s \in {"children", "header", "title", "body"} : ClaimedChildren(j, s) # <<>>}

\* C11: when a record has children in a slot named like one of its final
\* props, the prop of its element under that name is the list of the slot's
\* children and not the scalar; every other prop keeps its value.
C11_SlotWinsOverProp ==
    \A j \in Idx :
        Rendered(j) =>
            LET props == task[j].result.props IN
            /\ \A s \in SlotsOf(j) :
                   LET kids == ClaimedChildren(j, s) IN
                   /\ s \in DOMAIN props
                   /\ props[s] = List([n \in 1..Len(kids) |-> task[kids[n]].result])
            /\ \A n \in DOMAIN FinalProps(j) \ SlotsOf(j) :
                   n \in DOMAIN props /\ props[n] = FinalProps(j)[n]

\* a record whose transformed props have a title and a body was rendered
\* with a child in the slot "title": its title is the list, its body is kept
C11_Witness ==
    \E j \in Idx :
        /\ Rendered(j)
        /\ HasTransform(j)
        /\ "title" \in SlotsOf(j) /\ "title" \in DOMAIN FinalProps(j)
        /\ "list" \in DOMAIN task[j].result.props["title"]
        /\ task[j].result.props["body"] = Scalar("Text")

----------------------------------------------------------------------------
(* The key of a component id *)

DotCount(id) == Cardinality({n \in 1..Len(id) : id[n] = "."})

\* everything after the first '.' of an id that has one
AfterFirstDot(id) ==
    LET p == CHOOSE n \in 1..Len(id) : id[n] = "." /\ \A m \in 1..(n-1) : id[m] # "."
    IN  SubSeq(id, p + 1, Len(id))

\* the characters of text other than '_', each one that begins the text or
\* follows a '_' in upper case
RECURSIVE PascalFrom(_, _)
PascalFrom(text, n) ==
    IF n > Len(text) THEN <<>>
    ELSE IF text[n] = "_" THEN PascalFrom(text, n + 1)
    ELSE <<IF n = 1 \/ text[n-1] = "_" THEN ToUpperCase(text[n]) ELSE text[n]>>
         \o PascalFrom(text, n + 1)

PascalOf(text) == PascalFrom(text, 1)

\* text without one leading occurrence of prefix, when it begins with it
WithoutPrefix(text, prefix) ==
    IF \E rest \in {SubSeq(text, n, Len(text)) : n \in 1..(Len(text) + 1)} :
           text = prefix \o rest
    THEN SubSeq(text, Len(prefix) + 1, Len(text))
    ELSE text

\* the key renderComponent looked up for record j
KeyOf(j) == ComponentIdToKey(canvasComponents[j].component_id, idPrefix)

\* record j was looked up under key: it is loading or further with that
\* key when the map has it, and failed as not found when the map has not
LookedUpAs(j, key) ==
    task[j].pc # "idle" =>
        IF key \in DOMAIN componentMap
        THEN task[j].key = key
        ELSE task[j].caught /\ loaderCalls[j] = 0

\* C12: the key of a component id is built from everything after its first
\* '.', also when the id has two or more '.'.
C12_KeyFromWholeRemainder ==
    \A j \in Idx :
        LET id == canvasComponents[j].component_id IN
        DotCount(id) >= 1 =>
            LookedUpAs(j, WithoutPrefix(PascalOf(AfterFirstDot(id)), idPrefix))

\* C13: without idPrefix, the key of an id ns.w1_w2_..._wn with one '.' is
\* w1..wn joined, the first character of each in upper case and the others
\* unchanged, empty words adding nothing.
C13_SnakeToPascal ==
    \A j \in Idx :
        LET id == canvasComponents[j].component_id IN
        DotCount(id) = 1 =>
            /\ ComponentIdToKey(id, <<>>) = Returned(PascalOf(AfterFirstDot(id)))
            /\ idPrefix = <<>> => LookedUpAs(j, PascalOf(AfterFirstDot(id)))

\* without idPrefix, ns.text_block was rendered as TextBlock next to an id
\* with empty words that was rendered as TextBlock too
C13_Witness ==
    /\ idPrefix = <<>>
    /\ callState = "resolved"
    /\ \E j, q \in Idx :
           /\ canvasComponents[j].component_id = I_text_block
           /\ canvasComponents[q].component_id = I_empty_words
           /\ Rendered(j) /\ task[j].key = K_TextBlock
           /\ Rendered(q) /\ task[q].key = K_TextBlock

\* the id under which Drupal sends the component registered as indexId:
\* a '_' before every capital but the first, in lower case, after "ns."
RECURSIVE SnakeFrom(_, _)
SnakeFrom(name, n) ==
    IF n > Len(name) THEN <<>>
    ELSE LET isUpper == \E u \in 1..Len(Upper) : Upper[u] = name[n]
             lower == IF isUpper
                      THEN Lower[CHOOSE u \in 1..Len(Upper) : Upper[u] = name[n]]
                      ELSE name[n]
         IN  (IF isUpper /\ n > 1 THEN <<"_", lower>> ELSE <<lower>>)
             \o SnakeFrom(name, n + 1)

DrupalComponentId(indexId) == <<"n", "s", ".">> \o SnakeFrom(indexId, 1)

\* the id of the component index for a key of the component map
IndexId(prefix, key) == prefix \o key

\* C14: with idPrefix P, the key of a component id is its PascalCase form
\* without one leading P when that form begins with P, and the PascalCase
\* form itself when it does not; the id P+K of the index of every key K of
\* the component maps of the tests leads back to K.
C14_PrefixStripped ==
    idPrefix # <<>> =>
        /\ \A j \in Idx :
               LET id == canvasComponents[j].component_id
                   pascalCase == ComponentIdToKey(id, <<>>)
               IN  DotCount(id) >= 1 =>
                       /\ KeyOf(j) = Returned(WithoutPrefix(pascalCase.value, idPrefix))
                       /\ LookedUpAs(j, WithoutPrefix(pascalCase.value, idPrefix))
        /\ \A K \in NamedKeys :
               /\ K \in DOMAIN componentMap
               /\ ComponentIdToKey(DrupalComponentId(IndexId(idPrefix, K)), idPrefix)
                      = Returned(K)

\* with idPrefix Acme, ns.acme_text_block was rendered as TextBlock,
\* ns.card_grid as CardGrid, and ns.acme_acme_card_grid was looked up as
\* AcmeCardGrid and not found
C14_Witness ==
    /\ idPrefix = Acme
    /\ callState = "resolved"
    /\ \E j, q, r \in Idx :
           /\ canvasComponents[j].component_id = I_acme_text_block
           /\ Rendered(j) /\ task[j].key = K_TextBlock
           /\ canvasComponents[q].component_id = I_card_grid
           /\ Rendered(q) /\ task[q].key = K_CardGrid
           /\ canvasComponents[r].component_id = I_acme_twice
           /\ task[r].caught

----------------------------------------------------------------------------
(* The export a module is resolved to *)

\* the module the loader of record j resolves with
LoadedModule(j) == EntryOf(j).loader.module

\* the module of record j has an export of that name
HasExport(j, name) ==
    \E n \in 1..Len(LoadedModule(j)) : LoadedModule(j)[n][1] = name

\* resolveComponent has returned or thrown for record j
Resolved(j) ==
    /\ HasEntry(j)
    /\ EntryOf(j).loader.settles = "resolve"
    /\ task[j].pc \notin {"idle", "loading"}

\* resolveComponent threw "has no valid export" for record j, and that
\* error was handed to onError
NoValidExport(j) ==
    /\ task[j].caught
    /\ parseCalls[j] = 0
    /\ \E n \in CallsFor(j) : onErrorCalls[n].error = ErrorOf("has no valid export")

C16_InvalidExportFails ==
    \A j \in Idx :
        Resolved(j) =>
            LET m == LoadedModule(j)
                byDefault == Export(m, DefaultName)
                byKey == Export(m, KeyOf(j).value)
            IN  \/ HasExport(j, DefaultName) /\ ~IsValidComponent(byDefault)
                \/ /\ ~HasExport(j, DefaultName)
                   /\ HasExport(j, KeyOf(j).value) /\ ~IsValidComponent(byKey)
                => NoValidExport(j)

----------------------------------------------------------------------------
(* Fan-out over the slot buckets *)

\* C17: while a record awaits the children of one of its slot buckets, the
\* render tasks of all its children, in every bucket, have been started.
C17_AllBucketsStartedBeforeAwait ==
    \A p \in Idx :
        task[p].pc = "awaitSlot" =>
            \A c \in Range(ChildrenOf(canvasComponents[p].uuid)) : renders[c] > 0

----------------------------------------------------------------------------
(* Records whose parent is not in the list *)

Orphan(j) ==
    /\ canvasComponents[j].parent_uuid # null
    /\ \A q \in Idx : canvasComponents[q].uuid # canvasComponents[j].parent_uuid

\* the node, or a node nested in its slot lists, stands for the record uuid
RECURSIVE Mentions(_, _)
Mentions(node, uuid) ==
    /\ node.kind = "element"
    /\ \/ node.key = uuid
       \/ \E n \in DOMAIN node.props :
              \/ n = "failed" /\ node.props[n] = Scalar(uuid)
              \/ /\ "list" \in DOMAIN node.props[n]
                 /\ \E e \in 1..Len(node.props[n].list) :
                        Mentions(node.props[n].list[e], uuid)

\* C18: a record whose parent_uuid is the uuid of no record is never
\* visited: it is not rendered, its loader is not invoked, onError is not
\* called for it, it is nowhere in the result, and every other record's
\* result is the one its own subtree determines.
C18_OrphanDropped ==
    /\ \A j \in Idx :
           Orphan(j) =>
               /\ task[j].pc = "idle"
               /\ renders[j] = 0
               /\ loaderCalls[j] = 0
               /\ parseCalls[j] = 0
               /\ CallsFor(j) = {}
               /\ \A n \in 1..Len(callResult) : ~Mentions(callResult[n], Uuid(j))
    /\ \A j \in Idx :
           task[j].pc = "fulfilled" => task[j].result = SubtreeResult(j)
    /\ callState = "resolved" =>
           callResult = [n \in 1..Len(ClaimedRoots) |-> SubtreeResult(ClaimedRoots[n])]

\* the call resolved with a rendered parent and its child, and left out the
\* record between them, which names a parent that is not in the list and
\* whose component is not in the component map
C18_Witness ==
    /\ onErrorMode = "node"
    /\ callState = "resolved"
    /\ Orphan(2)
    /\ canvasComponents[2].component_id = C_missing
    /\ onErrorCalls = <<>>
    /\ Rendered(1) /\ Rendered(3)
    /\ canvasComponents[3].parent_uuid = Uuid(1)
    /\ Len(callResult) = 1

----------------------------------------------------------------------------
(* The strict legacy renderer aborts the call *)

\* record j hangs, through its parents, under a record without a parent
\* that has the default slot
ReachableFromRoot(j) ==
    \E r \in {j} \cup Ancestors(j) :
        /\ canvasComponents[r].parent_uuid = null
        /\ canvasComponents[r].slot \in {null, "", "children"}

\* the key of record j is not in the component map
KeyMissing(j) ==
    LET k == ComponentIdToKey(canvasComponents[j].component_id, <<>>) IN
    ~k.thrown /\ k.value \notin DOMAIN componentMap

\* the module of record j has no default export
NoDefaultExport(j) ==
    LET k == ComponentIdToKey(canvasComponents[j].component_id, <<>>) IN
    /\ ~k.thrown /\ k.value \in DOMAIN componentMap
    /\ componentMap[k.value].loader.settles = "resolve"
    /\ \A n \in 1..Len(componentMap[k.value].loader.module) :
           componentMap[k.value].loader.module[n][1] # DefaultName

\* the error the legacy renderer raises for such a record
FaultOf(j) ==
    LET key == ComponentIdToKey(canvasComponents[j].component_id, <<>>).value IN
    IF KeyMissing(j) THEN KeyError("not found in component map", key)
    ELSE KeyError("has no default export", key)

StrictCanStep ==
    \/ callState = "init"
    \/ \E i \in Idx : task[i].pc = "loading"
    \/ \E i \in Idx : task[i].pc = "awaitSlot" /\ AllSettled(Awaited(i))
    \/ callState = "running" /\ AllSettled(RootComponents)

\* C19: in the strict legacy renderer, when a record reachable from a root
\* has a key that is not in the component map or a module without default
\* export, the call does not resolve and returns no list: it rejects, with
\* the error of such a record, and cannot stop short of rejecting.
C19_StrictAborts ==
    (\E j \in Idx : ReachableFromRoot(j) /\ (KeyMissing(j) \/ NoDefaultExport(j)))
    => /\ callState # "resolved"
       /\ callResult = <<>>
       /\ callState \in {"init", "running"} => StrictCanStep
       /\ callState = "rejected" =>
              \E q \in Idx :
                  /\ ReachableFromRoot(q)
                  /\ KeyMissing(q) \/ NoDefaultExport(q)
                  /\ callError = FaultOf(q)

\* the call rejected with "has no default export" of a record two levels
\* down, the only record of the list that does not render, after a root
\* next to its parent had been rendered
C19_Witness ==
    /\ callState = "rejected"
    /\ callError = KeyError("has no default export", K_NamedOnly)
    /\ \E j \in Idx :
           /\ NoDefaultExport(j)
           /\ Cardinality(Ancestors(j)) = 1
           /\ \A q \in Idx \ {j} : ~KeyMissing(q) /\ ~NoDefaultExport(q)
           /\ \E q \in Idx \ {j} : Rendered(q)

----------------------------------------------------------------------------
(* The browser render function looks the name up as it is *)

\* C20: the browser render function rejects with "Component <name> not
\* found" exactly when componentName is not itself a key of the component
\* map, also when the map has the name with a prefix or in another
\* spelling; a name that is a key is loaded.
C20_ExactLookup ==
    \A c \in 1..Len(renderCalls) :
        LET call == renderCalls[c] IN
        IF \E k \in DOMAIN previewComponents : k = call.name
        THEN call.error # NameError("not found", call.name)
        ELSE /\ call.pc = "rejected"
             /\ call.error = NameError("not found", call.name)
             /\ \A n \in 1..Len(container) : container[n].call # c

\* AcmeHero was rendered into the container, and the calls for Hero and for
\* the id Drupal has for it were rejected as not found
C20_Witness ==
    /\ Len(renderCalls) = 2
    /\ renderCalls[1].name = N_AcmeHero
    /\ renderCalls[1].pc = "fulfilled"
    /\ Len(container) = 1
    /\ renderCalls[2].name \in {N_Hero, N_DrupalId}
    /\ renderCalls[2].pc = "rejected"
    /\ renderCalls[2].error = NameError("not found", renderCalls[2].name)

----------------------------------------------------------------------------
(* What the browser render function mounts *)

\* the calls of render that have settled
Fulfilled(c) == renderCalls[c].pc = "fulfilled"
Failed_call(c) == renderCalls[c].pc = "rejected"

\* the elements call c rendered into the container
MountedBy(c) == SelectSeq(container, LAMBDA m : m.call = c)

\* what transformProps of the entry makes of the props of call c, the props
\* themselves when the entry has none
TransformedProps(c) ==
    LET entry == previewComponents[renderCalls[c].name] IN
    IF entry.transformProps = "none" THEN renderCalls[c].props
    ELSE TransformProps(entry.transformProps, renderCalls[c].props).value

\* C21: the element a call of the preview render function mounts has, under
\* every key of slots, the parsed markup of that slot (also when a prop has
\* the same name), under every other name what transformProps made of the
\* props (the props themselves when the entry has no transformProps), and
\* nothing else; transformProps is called once with the props alone, and not
\* at all when the entry has none.
C21_PropsOverlaidWithSlots ==
    \A c \in 1..Len(renderCalls) :
        Fulfilled(c) =>
            LET call == renderCalls[c]
                final == TransformedProps(c)
                hasTp == previewComponents[call.name].transformProps # "none"
            IN  /\ Len(MountedBy(c)) = 1
                /\ LET props == MountedBy(c)[1].element.props IN
                   /\ DOMAIN props = DOMAIN final \cup DOMAIN call.slots
                   /\ \A n \in DOMAIN props :
                          props[n] = IF n \in DOMAIN call.slots
                                     THEN Parse(call.slots[n])
                                     ELSE final[n]
                /\ call.tp = IF hasTp THEN <<call.props>> ELSE <<>>
                /\ \A n \in 1..Len(call.tp) :
                       \A k \in DOMAIN call.tp[n] :
                           call.tp[n][k] \notin
                               {Parse(call.slots[m]) : m \in DOMAIN call.slots}

\* an entry with transformProps that derives title was rendered with a slot
\* named title: the title of the mounted element is the parsed slot
C21_Witness ==
    \E c \in 1..Len(renderCalls) :
        /\ Fulfilled(c)
        /\ renderCalls[c].name = N_Image
        /\ "title" \in DOMAIN renderCalls[c].slots
        /\ "title" \in DOMAIN renderCalls[c].props
        /\ TransformedProps(c)["title"] = Scalar("derived")
        /\ MountedBy(c)[1].element.props["title"] = Parse("<b>bold</b>")

\* call c is rejected by the step
FailsNow(c) ==
    /\ c \in 1..Len(renderCalls')
    /\ renderCalls'[c].pc = "rejected"
    /\ c \in 1..Len(renderCalls) => renderCalls[c].pc # "rejected"

\* C29: the step in which a browser render call fails (its name is not in
\* the map, its loader rejects, its module has no valid export or its
\* transformProps throws) leaves the container as it was, and no element in
\* the container was rendered by a call that failed.
C29_FailureMountsNothing ==
    [][ (\E c \in 1..MaxCalls : FailsNow(c)) =>
            /\ container' = container
            /\ \A n \in 1..Len(container') :
                   renderCalls'[container'[n].call].pc = "fulfilled" ]_vars

\* after a call had rendered its element, a call of a module without a
\* valid export and a call whose transformProps throws failed, one of them
\* when its loader had settled, and the container holds the first element only
C29_Witness ==
    /\ Len(renderCalls) >= 2
    /\ Fulfilled(1)
    /\ Failed_call(2)
    /\ renderCalls[2].name \in {N_Broken, N_Thrower}
    /\ Len(container) = 1
    /\ container[1].call = 1

\* every call of render has settled
AllCallsSettled ==
    \A c \in 1..Len(renderCalls) : Fulfilled(c) \/ Failed_call(c)

\* the call whose element the container shows: the last one rendered into it
Shown == container[Len(container)].call

\* C30: once every browser render call has settled, the container shows the
\* element of the most recently issued call that rendered, also when an
\* earlier call's loader settled after a later call's.
C30_LatestCallShown ==
    (AllCallsSettled /\ container # <<>>) =>
        \A c \in 1..Len(renderCalls) : Fulfilled(c) => c <= Shown

----------------------------------------------------------------------------
(* The required fields of the config *)

\* loadConfig found a config object and has settled
FoundObject ==
    /\ configCall.pc \in {"resolved", "rejected"}
    /\ configCall.found.type = "object"

\* the call was rejected with an error saying that the field is required
RequiredError(field) ==
    /\ configCall.pc = "rejected"
    /\ configCall.error.isError
    /\ "field" \in DOMAIN configCall.error
    /\ configCall.error.field = field

\* C24: loadConfig rejects a found config with components and without outDir
\* with an error saying that outDir is required, rejects a found config with
\* outDir and without components with an error saying that components is
\* required, and resolves to the found config when it has both an outDir
\* string and a components object.
C24_RequiredFields ==
    FoundObject =>
        LET config == configCall.found IN
        /\ (config.outDir = "undefined" /\ config.components = "object")
               => RequiredError("outDir")
        /\ (config.outDir = "string" /\ config.components = "undefined")
               => RequiredError("components")
        /\ (config.outDir = "string" /\ config.components = "object")
               => configCall.pc = "resolved" /\ configCall.value = config

----------------------------------------------------------------------------
(* The empty list *)

\* C23: a call with an empty record list never rejects, can resolve as soon
\* as it was made, resolves to the empty list, and invokes no loader and no
\* onError, renders no record and parses no inputs.
C23_EmptyListEmptyResult ==
    canvasComponents = <<>> =>
        /\ callState # "rejected"
        /\ callState = "running" => AllSettled(RootComponents)
        /\ callState = "resolved" => callResult = <<>>
        /\ onErrorCalls = <<>>
        /\ \A i \in Idx :
               /\ renders[i] = 0
               /\ loaderCalls[i] = 0
               /\ parseCalls[i] = 0
               /\ tpCalls[i] = <<>>

\* the call with an empty list and a configured onError has resolved
C23_Witness ==
    /\ canvasComponents = <<>>
    /\ onErrorMode = "node"
    /\ callState = "resolved"
    /\ callResult = <<>>

----------------------------------------------------------------------------
(* Parent references that form a cycle *)

\* record j is reached again by following parent_uuid from j
OnCycle(j) == j \in Ancestors(j)

\* the promise of the call has settled
CallDone == callState \in {"resolved", "rejected"}

\* the steps renderComponent(j) has before it: an activation not yet made
\* has all of them, one that awaits its n-th slot bucket the buckets from
\* the n-th on, one that has settled none
TaskRank(j) ==
    CASE task[j].pc = "idle" -> NumRecords + 2
      [] task[j].pc = "loading" -> NumRecords + 1
      [] task[j].pc = "awaitSlot" -> NumRecords + 1 - task[j].slotIdx
      [] OTHER -> 0

RECURSIVE RankUpTo(_)
RankUpTo(n) == IF n = 0 THEN 0 ELSE TaskRank(n) + RankUpTo(n - 1)

\* the steps the call has before it
Rank ==
    RankUpTo(NumRecords) +
        (CASE callState = "init" -> 2 [] callState = "running" -> 1 [] OTHER -> 0)

\* C25: for every list with unique uuids, also when its parent references
\* lead back to a record or to the record itself, no record on such a cycle
\* is ever visited, and the call terminates: until its promise has settled
\* there is a loader that is pending or a continuation that can run, and
\* every step takes one of a bounded number of steps away.
C25_TerminatesWithCycles ==
    /\ [](\A j \in Idx : OnCycle(j) => renders[j] = 0 /\ task[j].pc = "idle")
    /\ [](~CallDone => CanStep)
    /\ [](Rank \in 0..(NumRecords * (NumRecords + 2) + 2))
    /\ [][Rank' < Rank]_vars

\* the call resolved with a rendered root while two records name each other
\* as parent and were never visited
C25_Witness ==
    /\ callState = "resolved"
    /\ \E r \in Idx : Rendered(r) /\ loaderCalls[r] = 1
    /\ \E j, k \in Idx :
           /\ j # k
           /\ ParentOf(j) = k
           /\ ParentOf(k) = j
           /\ renders[j] = 0
           /\ renders[k] = 0

----------------------------------------------------------------------------
(* The records that are visited *)

\* the call has settled and so has every renderComponent that was started
Quiet ==
    /\ CallDone
    /\ \A j \in Idx : task[j].pc \in {"idle", "fulfilled", "rejected"}

\* record j has no parent and the default slot
DefaultRoot(j) ==
    /\ canvasComponents[j].parent_uuid = null
    /\ canvasComponents[j].slot \in {null, "", "children"}

\* record j is such a root, or its parents lead to one within n steps
\* through records that were all rendered
RECURSIVE LeadsToRoot(_, _)
LeadsToRoot(j, n) ==
    \/ DefaultRoot(j)
    \/ /\ n > 0
       /\ ParentOf(j) # 0
       /\ Rendered(ParentOf(j))
       /\ LeadsToRoot(ParentOf(j), n - 1)

\* the visited records are the roots of the default slot and the records
\* below them under rendered records, each visited once
VisitedAsClaimed ==
    /\ \A j \in Idx : renders[j] <= 1
    /\ Quiet =>
           \A j \in Idx :
               /\ renders[j] = 1 <=> LeadsToRoot(j, NumRecords)
               /\ (canvasComponents[j].parent_uuid = null /\ ~DefaultRoot(j))
                      => renders[j] = 0

----------------------------------------------------------------------------
(* Invocations of the loaders *)

\* the normalized key of every visited record that has one in the map, and
\* <<>> for the other records
EntryKeys ==
    [j \in Idx |->
        IF renders[j] = 0 THEN <<>>
        ELSE LET k == KeyOf(j) IN
             IF ~k.thrown /\ k.value \in DOMAIN componentMap THEN k.value
             ELSE <<>>]

\* the invocations of the loader of the entry made for the records 1..n
RECURSIVE LoaderCallsFor(_, _, _)
LoaderCallsFor(key, keys, n) ==
    IF n = 0 THEN 0
    ELSE LoaderCallsFor(key, keys, n - 1) +
             (IF keys[n] = key THEN loaderCalls[n] ELSE 0)

\* the visited records whose normalized key is the key of the entry
VisitedOfType(key, keys) == {j \in Idx : keys[j] = key}

\* C27: within one call the loader of every entry has been invoked as many
\* times as there are visited records whose normalized key is the key of
\* that entry, once for each of them, and no loader was invoked for a record
\* whose key is not in the map or that was not visited.
C27_LoaderOncePerVisited ==
    LET keys == EntryKeys IN
    /\ \A key \in NamedKeys :
           LoaderCallsFor(key, keys, NumRecords) =
               Cardinality(VisitedOfType(key, keys))
    /\ \A j \in Idx : loaderCalls[j] = IF keys[j] # <<>> THEN 1 ELSE 0

\* the call resolved after the loader of Ok was invoked for a record and
\* again for its child, and a visited record whose key is not in the map
\* caused no invocation
C27_Witness ==
    /\ callState = "resolved"
    /\ Cardinality(VisitedOfType(K_Ok, EntryKeys)) = 2
    /\ LoaderCallsFor(K_Ok, EntryKeys, NumRecords) = 2
    /\ \E j \in VisitedOfType(K_Ok, EntryKeys) :
           ParentOf(j) \in VisitedOfType(K_Ok, EntryKeys)
    /\ \E j \in Idx : renders[j] = 1 /\ ~HasEntry(j) /\ loaderCalls[j] = 0

----------------------------------------------------------------------------
(* The promise of the call *)

----------------------------------------------------------------------------
(* Two calls at once *)

\* C22: renderCanvasComponents leaves the input records as they were passed
\* (and the component map is never written), and of two calls running
\* interleaved over the same component map each resolves to the result it
\* gives when it runs alone: the list one call groups by is never the list
\* of the other call.
C22_CallsDoNotInterfere ==
    parked.who # 0 =>
        /\ canvasComponents = parked.args[3 - parked.who]
        /\ parked.closure.canvasComponents = parked.args[parked.who]
        /\ callState # "rejected"
        /\ callState = "resolved" =>
               callResult =
                   [n \in 1..Len(ClaimedRoots) |-> SubtreeResult(ClaimedRoots[n])]

\* both calls have resolved, their continuations ran in turns while both
\* were under way, and one list has a child where the other has a root
C22_Witness ==
    /\ parked.who # 0
    /\ parked.interleaved
    /\ callState = "resolved"
    /\ parked.closure.callState = "resolved"
    /\ Len(callResult) # Len(parked.closure.callResult)
    /\ Len(callResult) > 0
    /\ Len(parked.closure.callResult) > 0

=============================================================================
